---- MODULE Spec2Model ----
(***************************************************************************)
(* Score analysis core of ScoreAnalysis (data_processor.py, app.py).       *)
(*                                                                         *)
(* Numbers: scores are naturals; NaN is the missing number.  Rates and     *)
(* averages are kept in hundredths (6667 is 66.67), which is what          *)
(* round(x, 2) leaves of them.  Strings are TLA+ strings; NA is the        *)
(* missing value of an object column.  Column names: "name" is 姓名,        *)
(* "cls" is 班级, "score" is 得分, the subject "total" is a column whose      *)
(* name contains 总分.                                                      *)
(***************************************************************************)
EXTENDS Integers, Sequences, FiniteSets, TLC

VARIABLES school_data,   \* argument of the school analyses: the subject tables, in dict order
          league_df,     \* the league table read by read_league_data
          school_names,  \* the list _parse_school_names hands to the league functions
          total_out,     \* what analyze_school_total_score returned, NotRun before the call
          assess_out,    \* what calculate_class_assessment returned, with the request's two lines
          extract_out,   \* what _get_school_data_from_sources returned or raised
          league_out,    \* what analyze_league_scores returned
          subject_data,  \* argument of the per-subject analyses: subject tables, some maybe empty
          scores_out,    \* what analyze_school_scores returned
          by_class_out,  \* what analyze_school_subjects_by_class returned
          raw,           \* the workbook a reader is given: its layout and its cells
          read_out,      \* what read_league_data or read_school_data returned
          extract_again,   \* what a second extraction on the same league table returned
          subject_lines,   \* the subject_score_lines argument: a threshold for some subjects
          lines_out,       \* what analyze_subject_score_lines returned
          class_table_out, \* what analyze_class_subjects_table returned
          analyze_out      \* what the analyze request answered

vars == <<school_data, league_df, school_names, total_out, assess_out, extract_out,
          league_out, subject_data, scores_out, by_class_out, raw, read_out,
          extract_again, subject_lines, lines_out, class_table_out, analyze_out>>

----------------------------------------------------------------------------
(* Bounds of the model *)

MaxRows == 3          \* rows over all the subject tables of one school
MaxScore == 2         \* scores are 0 .. MaxScore
MaxTotalRows == 1     \* rows of the table of the subject named 总分
MaxLeagueRows == 2    \* rows of the league table
MaxStatRows == 3      \* rows of the subject table of the per-subject analyses
MaxLineRows == 2      \* rows of the first subject table of the subject-line analyses
MaxReadRows == 2      \* rows of a sheet given to the readers

----------------------------------------------------------------------------
(* Values *)

NaN == -1
NA == "<NA>"
NotRun == [status |-> "not_run"]

Names == {"Ann", "Bob"}
RawClasses == {"1", " 2"}
Scores == 0 .. MaxScore

\* str.strip() on the strings of the model
Strip(s) == IF s = " 2" THEN "2" ELSE s

\* Series.replace(['nan', 'None', ''], '')
ReplaceBlank(s) == IF s \in {"nan", "None", ""} THEN "" ELSE s

\* the order of Python strings, on the strings of the model; NaN keys sort last
StrOrd(s) ==
    CASE s = "" -> 0
      [] s = "1" -> 1
      [] s = "2" -> 2
      [] s = "A" -> 3
      [] s = "Ann" -> 4
      [] s = "B" -> 5
      [] s = "Bob" -> 6
      [] s = "nan" -> 7
      [] OTHER -> 9

\* '总分' in str(col)
ContainsTotal(col) == col = "total"

\* round(num / den, 2) in hundredths, half to even as Python's round
Round2(num, den) ==
    LET q == (num * 100) \div den
        r == (num * 100) % den
    IN  IF 2 * r > den THEN q + 1
        ELSE IF 2 * r = den THEN (IF q % 2 = 0 THEN q ELSE q + 1)
        ELSE q

RECURSIVE SumSeq(_)
SumSeq(s) == IF s = <<>> THEN 0 ELSE Head(s) + SumSeq(Tail(s))

\* the elements of a sequence
Range(s) == {s[i] : i \in DOMAIN s}

\* Series.unique(): the distinct values in order of first appearance
RECURSIVE Unique(_)
Unique(s) ==
    IF s = <<>> THEN <<>>
    ELSE LET init == Unique(SubSeq(s, 1, Len(s) - 1))
             last == s[Len(s)]
         IN  IF last \in Range(init) THEN init ELSE Append(init, last)

\* [f(x) for x in s]
RECURSIVE MapSeq(_, _)
MapSeq(f(_), s) == IF s = <<>> THEN <<>> ELSE <<f(Head(s))>> \o MapSeq(f, Tail(s))

\* list.sort(key=..., reverse=True): stable, largest key first
RECURSIVE InsertDesc(_, _, _)
InsertDesc(key(_), x, s) ==
    IF s = <<>> THEN <<x>>
    ELSE IF key(Head(s)) >= key(x) THEN <<Head(s)>> \o InsertDesc(key, x, Tail(s))
    ELSE <<x>> \o s

RECURSIVE SortDesc(_, _)
SortDesc(key(_), s) ==
    IF s = <<>> THEN <<>>
    ELSE InsertDesc(key, s[Len(s)], SortDesc(key, SubSeq(s, 1, Len(s) - 1)))

----------------------------------------------------------------------------
(* Total-score merge: the loop shared by analyze_school_total_score and     *)
(* calculate_class_assessment.                                             *)
(*                                                                         *)
(* A subject table is [subject, hasClass, rows], rows of [name, cls,       *)
(* score]; hasClass says whether the table carries a 班级 column.  The       *)
(* merged table is [subjects, hasCls, hasXY, rows]: the subject columns in *)
(* order, whether the columns 班级 and 班级_x/班级_y exist, and rows of        *)
(* [name, cls, clsx, clsy, sc] with sc[subject] the subject's score.       *)

\* subject_df: name and class stripped, class placeholders blanked, rows
\* without a numeric score dropped, the score column renamed to the subject
SubjectDf(t) ==
    LET Clean(r) == [name |-> Strip(r.name),
                     cls |-> IF t.hasClass THEN ReplaceBlank(Strip(r.cls)) ELSE "",
                     val |-> r.score]
        HasScore(r) == r.score # NaN
    IN  MapSeq(Clean, SelectSeq(t.rows, HasScore))

\* the join key of a row
MergeKey(r, withClass) == IF withClass THEN <<r.name, r.cls>> ELSE <<r.name>>

\* lexicographic order of join keys
KeyLeq(a, b) ==
    \/ StrOrd(a[1]) < StrOrd(b[1])
    \/ /\ a[1] = b[1]
       /\ (Len(a) = 1 \/ StrOrd(a[2]) <= StrOrd(b[2]))

RECURSIVE SortKeys(_)
SortKeys(S) ==
    IF S = {} THEN <<>>
    ELSE LET m == CHOOSE k \in S : \A o \in S : KeyLeq(k, o)
         IN  <<m>> \o SortKeys(S \ {m})

RECURSIVE Concat(_)
Concat(ss) == IF ss = <<>> THEN <<>> ELSE Head(ss) \o Concat(Tail(ss))

\* pd.merge(left, right, on=keys, how='outer').  mode "key": 班级 is a join
\* key; "suffix": name is the only key and both sides carry 班级, which
\* becomes 班级_x and 班级_y; "add": name is the only key and the left side has
\* no 班级 column, so the right one's is added.
MergeOuter(left, right, subject, mode) ==
    LET withClass == mode = "key"
        cols == Range(left.subjects)
        none == [c \in cols |-> NaN]
        Both(l, r) ==
            [name |-> l.name,
             cls |-> IF mode = "key" THEN l.cls ELSE IF mode = "add" THEN r.cls ELSE NA,
             clsx |-> IF mode = "suffix" THEN l.cls ELSE l.clsx,
             clsy |-> IF mode = "suffix" THEN r.cls ELSE l.clsy,
             sc |-> l.sc @@ (subject :> r.val)]
        LeftOnly(l) ==
            [name |-> l.name,
             cls |-> IF mode = "key" THEN l.cls ELSE NA,
             clsx |-> IF mode = "suffix" THEN l.cls ELSE l.clsx,
             clsy |-> IF mode = "suffix" THEN NA ELSE l.clsy,
             sc |-> l.sc @@ (subject :> NaN)]
        RightOnly(r) ==
            [name |-> r.name,
             cls |-> IF mode = "suffix" THEN NA ELSE r.cls,
             clsx |-> NA,
             clsy |-> IF mode = "suffix" THEN r.cls ELSE NA,
             sc |-> none @@ (subject :> r.val)]
        keys == {MergeKey(l, withClass) : l \in Range(left.rows)}
                    \cup {MergeKey(r, withClass) : r \in Range(right)}
        Group(k) ==
            LET LMatch(l) == MergeKey(l, withClass) = k
                RMatch(r) == MergeKey(r, withClass) = k
                ls == SelectSeq(left.rows, LMatch)
                rs == SelectSeq(right, RMatch)
                Pair(l) == LET P(r) == Both(l, r) IN MapSeq(P, rs)
            IN  IF rs = <<>> THEN MapSeq(LeftOnly, ls)
                ELSE IF ls = <<>> THEN MapSeq(RightOnly, rs)
                ELSE Concat(MapSeq(Pair, ls))
    IN  [subjects |-> Append(left.subjects, subject),
         hasCls |-> mode # "suffix",
         hasXY |-> left.hasXY \/ mode = "suffix",
         rows |-> Concat(MapSeq(Group, SortKeys(keys)))]

\* one pass of the loop over school_data.items(); acc is [df, has_class_column, err]
MergeStep(acc, t) ==
    LET subject_df == SubjectDf(t)
        has_class == acc.has_class_column \/ t.hasClass
        First(r) == [name |-> r.name, cls |-> r.cls, clsx |-> NA, clsy |-> NA,
                     sc |-> (t.subject :> r.val)]
    IN  IF acc.err \/ t.rows = <<>> THEN acc
        ELSE IF subject_df = <<>> THEN [acc EXCEPT !.has_class_column = has_class]
        ELSE IF acc.df = NotRun
        THEN [df |-> [subjects |-> <<t.subject>>, hasCls |-> TRUE, hasXY |-> FALSE,
                      rows |-> MapSeq(First, subject_df)],
              has_class_column |-> has_class, err |-> FALSE]
        ELSE LET mode == IF has_class /\ acc.df.hasCls THEN "key"
                         ELSE IF acc.df.hasCls THEN "suffix"
                         ELSE "add"
             IN  IF mode = "suffix" /\ acc.df.hasXY
                 THEN [acc EXCEPT !.err = TRUE, !.has_class_column = has_class]
                 ELSE [df |-> MergeOuter(acc.df, subject_df, t.subject, mode),
                       has_class_column |-> has_class, err |-> FALSE]

RECURSIVE MergeLoop(_, _)
MergeLoop(acc, tables) ==
    IF tables = <<>> THEN acc ELSE MergeLoop(MergeStep(acc, Head(tables)), Tail(tables))

\* total_score_df after the loop, NotRun when no subject contributed
MergeSubjects(tables) ==
    MergeLoop([df |-> NotRun, has_class_column |-> FALSE, err |-> FALSE], tables)

----------------------------------------------------------------------------
(* analyze_school_total_score *)

\* the score_lines argument: every line of the model, one result per line
ScoreLineList == [i \in 1 .. (MaxScore + 1) |-> i]

\* DataFrame[cols].sum(axis=1, skipna=True) of one row
RECURSIVE SumSkipNa(_, _)
SumSkipNa(sc, cols) ==
    IF cols = <<>> THEN 0
    ELSE (IF sc[Head(cols)] = NaN THEN 0 ELSE sc[Head(cols)]) + SumSkipNa(sc, Tail(cols))

\* the columns summed into 总分: every column but 姓名 and 班级 whose name does
\* not contain 总分
ScoreColumns(df) ==
    LET NotTotal(c) == ~ContainsTotal(c) IN SelectSeq(df.subjects, NotTotal)

\* the same sum with skipna=False: a missing score makes the sum missing
SumNoSkip(sc, cols) ==
    IF \E i \in DOMAIN cols : sc[cols[i]] = NaN THEN NaN ELSE SumSkipNa(sc, cols)

\* variant: the pass-line total without skipping missing scores
PassLineTotalNoSkip(df, r) == SumNoSkip(r.sc, ScoreColumns(df))

\* total_score_df['总分'] of the pass-line path
PassLineTotal(df, r) == SumSkipNa(r.sc, ScoreColumns(df))

\* variant: a filter that lets a total of 0 through
ValidTotalOrZero(total) == total # NaN /\ total >= 0

\* the rows kept: 总分 notna and > 0
ValidTotal(total) == total # NaN /\ total > 0

\* variant: only the rows that meet the line exactly
PassedRowsExact(rows, line) == LET P(r) == r.total = line IN SelectSeq(rows, P)

\* df[df['总分'] >= line]
PassedRows(rows, line) == LET P(r) == r.total >= line IN SelectSeq(rows, P)

\* variant: <= in place of <, so a row on the line counts twice
NotPassedRowsInclusive(rows, line) == LET P(r) == r.total <= line IN SelectSeq(rows, P)

\* df[df['总分'] < line]
NotPassedRows(rows, line) == LET P(r) == r.total < line IN SelectSeq(rows, P)

\* round(passed / total * 100, 2) if total > 0 else 0
PassRate(passed, total) == IF total > 0 THEN Round2(passed * 100, total) ELSE 0

\* round(mean of 总分, 2) if there is a row, else 0
AvgTotal(rows) ==
    LET T(r) == r.total
    IN  IF rows = <<>> THEN 0 ELSE Round2(SumSeq(MapSeq(T, rows)), Len(rows))

\* variant: every non-null class value gets an entry, the blank one included
ValidClassesWithBlank(rows) ==
    LET Ok(r) == r.cls # NA
        C(r) == Strip(r.cls)
    IN  Unique(MapSeq(C, SelectSeq(rows, Ok)))

\* the class labels that get a statistics entry: not null, not blank, not
\* 'nan', in order of first appearance
ValidClasses(rows) ==
    LET Ok(r) == r.cls # NA /\ Strip(r.cls) # "" /\ r.cls # "nan"
        C(r) == Strip(r.cls)
    IN  Unique(MapSeq(C, SelectSeq(rows, Ok)))

ClassRows(rows, c) ==
    LET In(r) == r.cls # NA /\ Strip(r.cls) = c IN SelectSeq(rows, In)

\* class_stats of one line, sorted by pass_rate descending
ClassStats(rows, line) ==
    LET Stat(c) ==
            LET class_df == ClassRows(rows, c)
                class_passed == PassedRows(class_df, line)
            IN  [class_name |-> c,
                 total_students |-> Len(class_df),
                 passed_count |-> Len(class_passed),
                 pass_rate |-> PassRate(Len(class_passed), Len(class_df)),
                 average_score |-> AvgTotal(class_df),
                 passed_avg_score |-> AvgTotal(class_passed)]
        Key(x) == x.pass_rate
    IN  SortDesc(Key, MapSeq(Stat, ValidClasses(rows)))

\* class_distribution: passed students counted by class label
ClassDistribution(passed) ==
    LET Ok(r) == r.cls # NA /\ Strip(r.cls) # "" /\ Strip(r.cls) # "nan"
        labels == {Strip(r.cls) : r \in {x \in Range(passed) : Ok(x)}}
    IN  [c \in labels |-> Len(ClassRows(passed, c))]

\* the result of one score line
LineResults(df, rows, line) ==
    LET passed_df == PassedRows(rows, line)
        not_passed_df == NotPassedRows(rows, line)
    IN  [score_line |-> line,
         total_students |-> Len(rows),
         average_score |-> AvgTotal(rows),
         passed_count |-> Len(passed_df),
         pass_rate |-> PassRate(Len(passed_df), Len(rows)),
         passed_avg_score |-> AvgTotal(passed_df),
         not_passed_count |-> Len(not_passed_df),
         not_passed_avg_score |-> AvgTotal(not_passed_df),
         class_stats |-> IF df.hasCls THEN ClassStats(rows, line) ELSE <<>>,
         class_distribution |-> IF df.hasCls THEN ClassDistribution(passed_df)
                                ELSE <<>>]

\* the call as a whole.  numeric_only says what DataFrame.sum does with the
\* string columns 班级_x/班级_y among the summed columns: drop them (older
\* pandas) or raise TypeError.
AnalyzeSchoolTotalScoreResult(tables, score_lines, numeric_only) ==
    LET m == MergeSubjects(tables)
        empty == [status |-> "ok", merged |-> m.df, students |-> <<>>,
                  results |-> [l \in {} |-> NotRun]]
        raised == [status |-> "raised", merged |-> NotRun, students |-> <<>>,
                   results |-> [l \in {} |-> NotRun]]
    IN  IF tables = <<>> THEN empty
        ELSE IF m.err THEN raised
        ELSE IF m.df = NotRun THEN empty
        ELSE IF m.df.hasXY /\ ~numeric_only THEN raised
        ELSE LET WithTotal(r) == [name |-> r.name, cls |-> r.cls, sc |-> r.sc,
                                  total |-> PassLineTotal(m.df, r)]
                 Keep(r) == ValidTotal(r.total)
                 rows == SelectSeq(MapSeq(WithTotal, m.df.rows), Keep)
             IN  IF rows = <<>> THEN empty
                 ELSE [status |-> "ok", merged |-> m.df, students |-> rows,
                       results |-> [l \in Range(score_lines) |->
                                       LineResults(m.df, rows, l)]]

----------------------------------------------------------------------------
(* calculate_class_assessment *)

\* variant: the 总分 column is never looked for
TotalScoreColsNone(df) == <<>>

\* the columns whose name contains 总分 (the key columns left out)
TotalScoreCols(df) == SelectSeq(df.subjects, ContainsTotal)

\* notna().all(axis=1) over every column but 姓名 and 班级
AllSubjectsPresent(df, r) ==
    /\ \A c \in Range(df.subjects) : r.sc[c] # NaN
    /\ df.hasXY => (r.clsx # NA /\ r.clsy # NA)

\* str(row.get('班级', '')).strip()
ExcludedClass(df, r) == IF ~df.hasCls THEN "" ELSE IF r.cls = NA THEN "nan" ELSE Strip(r.cls)

Excluded(df, r, why) == [name |-> Strip(r.name), cls |-> ExcludedClass(df, r), reason |-> why]

\* variant: the weights 0.3 and 0.7 exchanged
AssessmentScoreSwapped(tekong_passed, yiduan_passed, class_total) ==
    IF class_total > 0 THEN Round2((7 * tekong_passed + 3 * yiduan_passed) * 10, class_total)
    ELSE 0

\* round(0.3 * tekong_rate + 0.7 * yiduan_rate, 2) with the rates unrounded
AssessmentScore(tekong_passed, yiduan_passed, class_total) ==
    IF class_total > 0 THEN Round2((3 * tekong_passed + 7 * yiduan_passed) * 10, class_total)
    ELSE 0

\* the entry of one class, before ranking
ClassResult(rows, c, tekong_line, yiduan_line) ==
    LET class_df == ClassRows(rows, c)
        class_total == Len(class_df)
        tekong_passed == Len(PassedRows(class_df, tekong_line))
        yiduan_passed == Len(PassedRows(class_df, yiduan_line))
    IN  [class_name |-> c,
         total_students |-> class_total,
         tekong_passed |-> tekong_passed,
         tekong_rate |-> PassRate(tekong_passed, class_total),
         yiduan_passed |-> yiduan_passed,
         yiduan_rate |-> PassRate(yiduan_passed, class_total),
         assessment_score |-> AssessmentScore(tekong_passed, yiduan_passed, class_total)]

\* variant: the sort without reverse=True
SortByAssessmentAscending(class_results) ==
    LET Key(x) == 0 - x.assessment_score IN SortDesc(Key, class_results)

\* class_results.sort(key=assessment_score, reverse=True)
SortByAssessment(class_results) ==
    LET Key(x) == x.assessment_score IN SortDesc(Key, class_results)

\* for idx, result in enumerate(class_results, 1): result['rank'] = idx
AddRank(sorted) ==
    [i \in DOMAIN sorted |-> sorted[i] @@ [rank |-> i]]

\* the call as a whole; numeric_only as in AnalyzeSchoolTotalScoreResult
CalculateClassAssessmentResult(tables, tekong_line, yiduan_line, numeric_only) ==
    LET m == MergeSubjects(tables)
        df == m.df
        empty == [status |-> "ok", merged |-> df, students |-> <<>>,
                  class_results |-> <<>>, excluded_students |-> <<>>]
        raised == [status |-> "raised", merged |-> NotRun, students |-> <<>>,
                   class_results |-> <<>>, excluded_students |-> <<>>]
    IN  IF m.err THEN raised
        ELSE IF df = NotRun THEN empty
        ELSE
        LET total_score_cols == TotalScoreCols(df)
            by_column == total_score_cols # <<>>
            Invalid(r) == IF by_column THEN ~ValidTotal(r.sc[total_score_cols[1]])
                          ELSE ~AllSubjectsPresent(df, r)
            Valid(r) == ~Invalid(r)
            why == IF by_column THEN "total missing or zero"
                   ELSE "missing subject score"
            Ex(r) == Excluded(df, r, why)
            excluded == MapSeq(Ex, SelectSeq(df.rows, Invalid))
            WithTotal(r) ==
                [name |-> r.name, cls |-> r.cls, sc |-> r.sc,
                 total |-> IF by_column THEN r.sc[total_score_cols[1]]
                           ELSE SumNoSkip(r.sc, df.subjects)]
            rows == MapSeq(WithTotal, SelectSeq(df.rows, Valid))
            C(c) == ClassResult(rows, c, tekong_line, yiduan_line)
        IN  IF rows = <<>> THEN [empty EXCEPT !.excluded_students = excluded]
            ELSE IF ~by_column /\ df.hasXY /\ ~numeric_only
            THEN raised
            ELSE IF ~df.hasCls
            THEN [empty EXCEPT !.students = rows, !.excluded_students = excluded]
            ELSE [status |-> "ok", merged |-> df, students |-> rows,
                  class_results |-> AddRank(SortByAssessment(MapSeq(C, ValidClasses(rows)))),
                  excluded_students |-> excluded]

----------------------------------------------------------------------------
(* build_school_data_from_league, as _get_school_data_from_sources calls it *)
(*                                                                         *)
(* The league table is [hasSchool, score_cols, rows], rows of [school,     *)
(* name, cls, sc] with sc[subject] a score or NaN; hasSchool says whether  *)
(* the table carries a 学校 column, score_cols lists the score columns it    *)
(* carries.                                                                *)

\* the score columns of the model's league table, in the order of score_columns
LeagueSubjects == <<"chinese", "math">>

\* Series == list: pandas compares position by position and refuses operands
\* of different lengths (ValueError: Lengths must match to compare)
LengthsMatch(rows, names) == Len(rows) = Len(names)

\* the boolean mask league_df['学校'] == school_name, school_name being the list
SchoolMask(rows, names) == [i \in DOMAIN rows |-> rows[i].school = names[i]]

\* df[mask]
RECURSIVE Masked(_, _)
Masked(rows, mask) ==
    IF rows = <<>> THEN <<>>
    ELSE LET rest == Masked(SubSeq(rows, 1, Len(rows) - 1), SubSeq(mask, 1, Len(rows) - 1))
         IN  IF mask[Len(rows)] THEN Append(rest, rows[Len(rows)]) ELSE rest

\* df_sub of one subject: 班级, 姓名 and the subject's score of the rows that have one
SubjectFromLeague(school_df, subject) ==
    LET Has(r) == r.sc[subject] # NaN
        Row(r) == [name |-> Strip(r.name), cls |-> Strip(r.cls), score |-> r.sc[subject]]
    IN  [subject |-> subject, hasClass |-> TRUE,
         rows |-> MapSeq(Row, SelectSeq(school_df, Has))]

\* variant: a subject without any score keeps its empty table in the mapping
BuildSchoolDataFromLeagueKeepEmpty(league, names) ==
    LET none == [status |-> "ok", error |-> "", tables |-> <<>>]
    IN  IF league.rows = <<>> \/ names = <<>> \/ ~league.hasSchool THEN none
        ELSE IF ~LengthsMatch(league.rows, names)
        THEN [status |-> "raised", error |-> "lengths must match", tables |-> <<>>]
        ELSE LET school_df == Masked(league.rows, SchoolMask(league.rows, names))
                 Sub(x) == SubjectFromLeague(school_df, x)
             IN  IF school_df = <<>> THEN none
                 ELSE [none EXCEPT !.tables = MapSeq(Sub, league.score_cols)]

\* build_school_data_from_league(league_df, school_name)
BuildSchoolDataFromLeague(league, names) ==
    LET none == [status |-> "ok", error |-> "", tables |-> <<>>]
    IN  IF league.rows = <<>> \/ names = <<>> \/ ~league.hasSchool THEN none
        ELSE IF ~LengthsMatch(league.rows, names)
        THEN [status |-> "raised", error |-> "lengths must match", tables |-> <<>>]
        ELSE LET school_df == Masked(league.rows, SchoolMask(league.rows, names))
                 Sub(s) == SubjectFromLeague(school_df, s)
                 NonEmpty(t) == t.rows # <<>>
                 available_subjects == league.score_cols
             IN  [none EXCEPT !.tables = SelectSeq(MapSeq(Sub, available_subjects), NonEmpty)]

\* variant: the two raises left out, the derived mapping returned as it is
GetSchoolDataFromSourcesSilent(league, names) == BuildSchoolDataFromLeague(league, names)

\* _get_school_data_from_sources(school_path=None, league_path, school_names)
GetSchoolDataFromSources(league, names) ==
    LET NonBlank(n) == Strip(n) # ""
        match_names == MapSeq(Strip, SelectSeq(names, NonBlank))
        derived == BuildSchoolDataFromLeague(league, match_names)
    IN  IF match_names = <<>>
        THEN [status |-> "raised", error |-> "no school name", tables |-> <<>>]
        ELSE IF derived.status = "ok" /\ derived.tables = <<>>
        THEN [status |-> "raised", error |-> "no records", tables |-> <<>>]
        ELSE derived

\* variant: the rows of the school are selected in the caller's table
LeagueAfterExtractInPlace(league, names) ==
    IF league.rows = <<>> \/ names = <<>> \/ ~league.hasSchool
           \/ ~LengthsMatch(league.rows, names)
    THEN league
    ELSE [league EXCEPT !.rows = Masked(league.rows, SchoolMask(league.rows, names))]

\* league_df after build_school_data_from_league: the selection is a copy
\* (league_df[...].copy()), 姓名 and 班级 are stripped on that copy and each
\* df_sub is a new frame, so nothing is assigned to the caller's table
LeagueAfterExtract(league, names) == league

----------------------------------------------------------------------------
(* analyze_league_scores, called with the list of school names *)

\* str(class_name) of a 班级 value
ClassLabel(c) == c

\* school_stats of one line: one entry per school in order of first
\* appearance, then sorted by pass_rate descending
SchoolStats(rows, line) ==
    LET S(r) == r.school
        Stat(school) ==
            LET In(r) == r.school = school
                school_data_rows == SelectSeq(rows, In)
                school_passed == PassedRows(school_data_rows, line)
            IN  [school_name |-> school,
                 total_students |-> Len(school_data_rows),
                 passed_count |-> Len(school_passed),
                 pass_rate |-> PassRate(Len(school_passed), Len(school_data_rows)),
                 average_score |-> AvgTotal(school_data_rows)]
        Key(x) == x.pass_rate
    IN  SortDesc(Key, MapSeq(Stat, Unique(MapSeq(S, rows))))

\* school_class_pass_stats of one line
SchoolClassPassStats(school_df, line) ==
    LET C(r) == r.cls
        Stat(c) ==
            LET In(r) == r.cls = c
                class_df == SelectSeq(school_df, In)
                class_passed == PassedRows(class_df, line)
            IN  [class_name |-> ClassLabel(c),
                 total_students |-> Len(class_df),
                 passed_count |-> Len(class_passed),
                 pass_rate |-> PassRate(Len(class_passed), Len(class_df)),
                 average_score |-> AvgTotal(class_df)]
        Key(x) == x.pass_rate
    IN  SortDesc(Key, MapSeq(Stat, Unique(MapSeq(C, school_df))))

\* school_rank: the 1-based index of the first school_stats entry whose
\* school_name == school_name; the right-hand side is the list of names, which
\* no string equals, so no entry is found
SchoolRank(school_stats, names, school_df) == NA

\* the result of one score line
LeagueLineResults(rows, school_df, names, line) ==
    LET league_passed == PassedRows(rows, line)
        school_passed == PassedRows(school_df, line)
        labels == {r.cls : r \in Range(school_passed)}
        school_stats == SchoolStats(rows, line)
    IN  [score_line |-> line,
         league_total |-> Len(rows),
         league_passed_count |-> Len(league_passed),
         league_pass_rate |-> PassRate(Len(league_passed), Len(rows)),
         school_stats |-> school_stats,
         school_total |-> Len(school_df),
         school_passed_count |-> Len(school_passed),
         school_pass_rate |-> PassRate(Len(school_passed), Len(school_df)),
         school_rank |-> SchoolRank(school_stats, names, school_df),
         school_class_distribution |->
             [c \in labels |-> LET In(r) == r.cls = c IN Len(SelectSeq(school_passed, In))],
         school_class_pass_stats |-> SchoolClassPassStats(school_df, line),
         school_average_score |-> AvgTotal(school_df)]

\* analyze_league_scores(league_df, school_name, score_lines)
AnalyzeLeagueScoresResult(league, names, score_lines) ==
    LET available_score_cols == league.score_cols
        WithTotal(r) == [school |-> r.school, name |-> r.name, cls |-> r.cls,
                         total |-> SumSkipNa(r.sc, available_score_cols)]
        Keep(r) == ValidTotal(r.total)
        rows == SelectSeq(MapSeq(WithTotal, league.rows), Keep)
    IN  IF available_score_cols = <<>>
        THEN [status |-> "ok", students |-> <<>>, results |-> [l \in {} |-> NotRun]]
        ELSE IF league.hasSchool /\ ~LengthsMatch(rows, names)
        THEN [status |-> "raised", students |-> rows, results |-> [l \in {} |-> NotRun]]
        ELSE LET school_df == IF league.hasSchool
                              THEN Masked(rows, SchoolMask(rows, names))
                              ELSE <<>>
             IN  [status |-> "ok", students |-> rows,
                  results |-> [l \in Range(score_lines) |->
                                  LeagueLineResults(rows, school_df, names, l)]]

----------------------------------------------------------------------------
(* Inputs *)

SubjectNames == <<"math", "english", "total">>

\* the rows a subject table can hold
RowsWithClass == [name : Names, cls : RawClasses, score : Scores]
RowsNoClass == [name : Names, cls : {NA}, score : Scores]

\* the sequences of at most n elements of S
SeqUpTo(S, n) == UNION {[1 .. k -> S] : k \in 0 .. n}

\* the tables of one subject with at most n rows
TablesOf(subject, n) ==
    {[subject |-> subject, hasClass |-> TRUE, rows |-> rs] : rs \in SeqUpTo(RowsWithClass, n)}
        \cup {[subject |-> subject, hasClass |-> FALSE, rows |-> rs] :
                 rs \in SeqUpTo(RowsNoClass, n) \ {<<>>}}

\* read_school_data and build_school_data_from_league return no empty table:
\* the mapping holds the subjects that have rows
NonEmptyTables(ts) == LET Has(t) == t.rows # <<>> IN SelectSeq(ts, Has)

LeagueScores == {NaN, 0, 1}
LeagueRows ==
    {r \in [school : {"A", "B"}, name : {"Ann"}, cls : {"1", "2"},
            sc : [Range(LeagueSubjects) -> LeagueScores]] :
        \E s \in Range(LeagueSubjects) : r.sc[s] # NaN}
LeagueRowsNoSchool == {[r EXCEPT !.school = NA] : r \in {x \in LeagueRows : x.school = "A"}}

\* the rows of a league table that carries no score column
LeagueRowsNoScores ==
    [school : {"A", "B"}, name : {"Ann"}, cls : {"1", "2"},
     sc : [Range(LeagueSubjects) -> {NaN}]]

\* what read_league_data returns: no row with every score missing, unless the
\* table has no score column at all
LeagueInputs ==
    {[hasSchool |-> TRUE, score_cols |-> LeagueSubjects, rows |-> rs] :
        rs \in SeqUpTo(LeagueRows, MaxLeagueRows)}
        \cup {[hasSchool |-> FALSE, score_cols |-> LeagueSubjects, rows |-> rs] :
                 rs \in SeqUpTo(LeagueRowsNoSchool, MaxLeagueRows) \ {<<>>}}
        \cup {[hasSchool |-> TRUE, score_cols |-> <<>>, rows |-> rs] :
                 rs \in SeqUpTo(LeagueRowsNoScores, MaxLeagueRows) \ {<<>>}}

\* what _parse_school_names returns: stripped, non-empty names
SchoolNameLists == {<<>>, <<"A">>, <<"B">>, <<"A", "B">>, <<"B", "A">>}

\* the tekong and yiduan lines of a request
AssessmentLines == {<<2, 1>>, <<1, 2>>}

----------------------------------------------------------------------------
(* The school analyses: one request on one mapping of subject tables *)

NoLeague == [hasSchool |-> TRUE, score_cols |-> LeagueSubjects, rows |-> <<>>]

\* every mapping of subject tables with at most MaxRows rows in all
InitSchool ==
    /\ \E a \in TablesOf(SubjectNames[1], MaxRows) :
         \E b \in TablesOf(SubjectNames[2], MaxRows - Len(a.rows)) :
            \E c \in TablesOf(SubjectNames[3], MaxTotalRows) :
               /\ Len(a.rows) + Len(b.rows) + Len(c.rows) <= MaxRows
               /\ school_data = NonEmptyTables(<<a, b, c>>)
    /\ league_df = NoLeague
    /\ school_names = <<>>
    /\ total_out = NotRun
    /\ assess_out = NotRun
    /\ extract_out = NotRun
    /\ league_out = NotRun
    /\ subject_data = <<>>
    /\ scores_out = NotRun
    /\ by_class_out = NotRun
    /\ raw = NotRun
    /\ read_out = NotRun
    /\ extract_again = NotRun
    /\ subject_lines = NotRun
    /\ lines_out = NotRun
    /\ class_table_out = NotRun
    /\ analyze_out = NotRun

AnalyzeSchoolTotalScore ==
    /\ total_out = NotRun
    /\ school_data # <<>>
    /\ \E numeric_only \in BOOLEAN :
          total_out' = AnalyzeSchoolTotalScoreResult(school_data, ScoreLineList, numeric_only)
    /\ UNCHANGED <<school_data, league_df, school_names, assess_out, extract_out,
                   league_out, subject_data, scores_out, by_class_out, raw, read_out,
                   extract_again, subject_lines, lines_out, class_table_out,
                   analyze_out>>

CalculateClassAssessment ==
    /\ assess_out = NotRun
    /\ school_data # <<>>
    /\ \E lines \in AssessmentLines, numeric_only \in BOOLEAN :
          assess_out' = [tekong_line |-> lines[1], yiduan_line |-> lines[2]]
                            @@ CalculateClassAssessmentResult(school_data, lines[1], lines[2],
                                                              numeric_only)
    /\ UNCHANGED <<school_data, league_df, school_names, total_out, extract_out,
                   league_out, subject_data, scores_out, by_class_out, raw, read_out,
                   extract_again, subject_lines, lines_out, class_table_out,
                   analyze_out>>

NextSchool == AnalyzeSchoolTotalScore \/ CalculateClassAssessment

SpecSchool == InitSchool /\ [][NextSchool]_vars

----------------------------------------------------------------------------
(* analyze_school_scores and analyze_school_subjects_by_class               *)
(*                                                                         *)
(* analyze_school_scores reports floats as they are: a float is kept       *)
(* exactly as [num, den, root], the fraction num / den in lowest terms or, *)
(* with root, its square root (a standard deviation that is no fraction);  *)
(* den = 0 is the float NaN.  Rounded fields are in hundredths.            *)

RECURSIVE Gcd(_, _)
Gcd(a, b) == IF b = 0 THEN a ELSE Gcd(b, a % b)

\* the float num / den, in lowest terms
Frac(num, den) ==
    LET g == Gcd(num, den) IN [num |-> num \div g, den |-> den \div g, root |-> FALSE]

\* float('nan')
NaNFloat == [num |-> 0, den |-> 0, root |-> FALSE]

\* the 0 of the entry of an empty table
Zero == Frac(0, 1)

\* the largest k with k * k <= n
ISqrt(n) == CHOOSE k \in 0 .. n : k * k <= n /\ (k + 1) * (k + 1) > n

\* the square root of the fraction v
Root(v) ==
    IF ISqrt(v.num) * ISqrt(v.num) = v.num /\ ISqrt(v.den) * ISqrt(v.den) = v.den
    THEN Frac(ISqrt(v.num), ISqrt(v.den))
    ELSE [v EXCEPT !.root = TRUE]

\* df['得分'] as a sequence
ScoresOf(rows) == LET S(r) == r.score IN MapSeq(S, rows)

\* Series.max() and Series.min()
MaxOf(xs) == CHOOSE m \in Range(xs) : \A x \in Range(xs) : x <= m
MinOf(xs) == CHOOSE m \in Range(xs) : \A x \in Range(xs) : m <= x

\* Series.mean()
MeanOf(xs) == Frac(SumSeq(xs), Len(xs))

\* Series.median(): the middle value, or the mean of the two middle values
MedianOf(xs) ==
    LET Key(x) == x
        sorted == SortDesc(Key, xs)
        n == Len(xs)
    IN  IF n % 2 = 1 THEN Frac(sorted[(n + 1) \div 2], 1)
        ELSE Frac(sorted[n \div 2] + sorted[n \div 2 + 1], 2)

\* the sample variance (ddof=1) of at least two values
VarianceOf(xs) ==
    LET Sq(x) == x * x
        n == Len(xs)
    IN  Frac(n * SumSeq(MapSeq(Sq, xs)) - SumSeq(xs) * SumSeq(xs), n * (n - 1))

\* Series.std(): the sample standard deviation, NaN for a single value
StdOf(xs) == IF Len(xs) < 2 THEN NaNFloat ELSE Root(VarianceOf(xs))

\* round(x, 2) of a float, in hundredths; NaN stays NaN
RoundValue(v) ==
    IF v.den = 0 THEN NaN
    ELSE IF v.root
    THEN CHOOSE h \in 0 .. (100 * MaxScore + 100) :
            /\ (h > 0) => (2 * h - 1) * (2 * h - 1) * v.den <= 40000 * v.num
            /\ 40000 * v.num < (2 * h + 1) * (2 * h + 1) * v.den
    ELSE Round2(v.num, v.den)

\* variant: an empty table gets no entry
SubjectsWithEntryNonEmpty(tables) == {tables[i].subject : i \in {j \in DOMAIN tables : tables[j].rows # <<>>}}

\* the keys of the result: every subject of the mapping
SubjectsWithEntry(tables) == {tables[i].subject : i \in DOMAIN tables}

\* the table of a subject of the mapping
TableOf(tables, subject) == tables[CHOOSE i \in DOMAIN tables : tables[i].subject = subject]

\* class_stats of analyze_school_scores: keyed by the class value as it is
ScoreClassStats(df) ==
    IF ~df.hasClass THEN <<>>
    ELSE [c \in {r.cls : r \in {x \in Range(df.rows) : x.cls # NA}} |->
            LET In(r) == r.cls = c
                xs == ScoresOf(SelectSeq(df.rows, In))
            IN  [count |-> Len(xs),
                 average |-> RoundValue(MeanOf(xs)),
                 max |-> RoundValue(Frac(MaxOf(xs), 1)),
                 min |-> RoundValue(Frac(MinOf(xs), 1))]]

\* the entry of one subject in analyze_school_scores
ScoreEntry(df) ==
    IF df.rows = <<>>
    THEN [total_students |-> 0, average_score |-> Zero, max_score |-> Zero,
          min_score |-> Zero, median_score |-> Zero, std_score |-> Zero,
          class_stats |-> <<>>]
    ELSE LET xs == ScoresOf(df.rows)
         IN  [total_students |-> Len(xs),
              average_score |-> MeanOf(xs),
              max_score |-> Frac(MaxOf(xs), 1),
              min_score |-> Frac(MinOf(xs), 1),
              median_score |-> MedianOf(xs),
              std_score |-> StdOf(xs),
              class_stats |-> ScoreClassStats(df)]

\* analyze_school_scores(school_data, score_lines)
AnalyzeSchoolScoresResult(tables) ==
    [status |-> "ok",
     results |-> [s \in SubjectsWithEntry(tables) |-> ScoreEntry(TableOf(tables, s))]]

\* class_stats of analyze_school_subjects_by_class: one entry per class that
\* is not blank after cleaning, sorted by average_score descending
ByClassStats(df) ==
    IF ~df.hasClass THEN <<>>
    ELSE LET Clean(r) == [r EXCEPT !.cls = IF r.cls = NA THEN "" ELSE ReplaceBlank(Strip(r.cls))]
             df_copy == MapSeq(Clean, df.rows)
             Stat(c) ==
                 LET xs == ScoresOf(ClassRows(df_copy, c))
                 IN  [class_name |-> c,
                      total_students |-> Len(xs),
                      average_score |-> RoundValue(MeanOf(xs)),
                      max_score |-> RoundValue(Frac(MaxOf(xs), 1)),
                      min_score |-> RoundValue(Frac(MinOf(xs), 1)),
                      median_score |-> RoundValue(MedianOf(xs))]
             Key(x) == x.average_score
         IN  SortDesc(Key, MapSeq(Stat, ValidClasses(df_copy)))

\* the entry of one subject in analyze_school_subjects_by_class
ByClassEntry(df) ==
    IF df.rows = <<>>
    THEN [total_students |-> 0, average_score |-> 0, max_score |-> 0,
          min_score |-> 0, median_score |-> 0, std_score |-> 0,
          class_stats |-> <<>>]
    ELSE LET xs == ScoresOf(df.rows)
         IN  [total_students |-> Len(xs),
              average_score |-> RoundValue(MeanOf(xs)),
              max_score |-> RoundValue(Frac(MaxOf(xs), 1)),
              min_score |-> RoundValue(Frac(MinOf(xs), 1)),
              median_score |-> RoundValue(MedianOf(xs)),
              std_score |-> RoundValue(StdOf(xs)),
              class_stats |-> ByClassStats(df)]

\* analyze_school_subjects_by_class(school_data)
AnalyzeSchoolSubjectsByClassResult(tables) ==
    [status |-> "ok",
     results |-> [s \in SubjectsWithEntry(tables) |-> ByClassEntry(TableOf(tables, s))]]

\* the class values of the tables of the per-subject analyses: 'nan' is what
\* astype(str) leaves of a null class
StatClasses == {"1", " 2", "nan"}

\* the subject tables the per-subject analyses are given; a table may be empty
StatTables(subject, classes, n) ==
    {[subject |-> subject, hasClass |-> TRUE, rows |-> rs] :
        rs \in SeqUpTo([name : {"Ann"}, cls : classes, score : Scores], n)}
        \cup {[subject |-> subject, hasClass |-> FALSE, rows |-> rs] :
                 rs \in SeqUpTo([name : {"Ann"}, cls : {NA}, score : Scores], n) \ {<<>>}}

InitSubjects ==
    /\ \E a \in StatTables("math", StatClasses, MaxStatRows) :
          \E b \in StatTables("english", {"1"}, 1) :
             b.hasClass /\ subject_data = <<a, b>>
    /\ school_data = <<>>
    /\ league_df = NoLeague
    /\ school_names = <<>>
    /\ total_out = NotRun
    /\ assess_out = NotRun
    /\ extract_out = NotRun
    /\ league_out = NotRun
    /\ scores_out = NotRun
    /\ by_class_out = NotRun
    /\ raw = NotRun
    /\ read_out = NotRun
    /\ extract_again = NotRun
    /\ subject_lines = NotRun
    /\ lines_out = NotRun
    /\ class_table_out = NotRun
    /\ analyze_out = NotRun

AnalyzeSchoolScores ==
    /\ scores_out = NotRun
    /\ subject_data # <<>> /\ subject_lines = NotRun
    /\ scores_out' = AnalyzeSchoolScoresResult(subject_data)
    /\ UNCHANGED <<school_data, league_df, school_names, total_out, assess_out,
                   extract_out, league_out, subject_data, by_class_out, raw, read_out,
                   extract_again, subject_lines, lines_out, class_table_out,
                   analyze_out>>

AnalyzeSchoolSubjectsByClass ==
    /\ by_class_out = NotRun
    /\ subject_data # <<>> /\ subject_lines = NotRun
    /\ by_class_out' = AnalyzeSchoolSubjectsByClassResult(subject_data)
    /\ UNCHANGED <<school_data, league_df, school_names, total_out, assess_out,
                   extract_out, league_out, subject_data, scores_out, raw, read_out,
                   extract_again, subject_lines, lines_out, class_table_out,
                   analyze_out>>

NextSubjects == AnalyzeSchoolScores \/ AnalyzeSchoolSubjectsByClass

SpecSubjects == InitSubjects /\ [][NextSubjects]_vars

----------------------------------------------------------------------------
(* The league analyses: one request on one league table *)

InitLeague ==
    /\ school_data = <<>>
    /\ league_df \in LeagueInputs
    /\ school_names \in SchoolNameLists
    /\ total_out = NotRun
    /\ assess_out = NotRun
    /\ extract_out = NotRun
    /\ league_out = NotRun
    /\ subject_data = <<>>
    /\ scores_out = NotRun
    /\ by_class_out = NotRun
    /\ raw = NotRun
    /\ read_out = NotRun
    /\ extract_again = NotRun
    /\ subject_lines = NotRun
    /\ lines_out = NotRun
    /\ class_table_out = NotRun
    /\ analyze_out = NotRun

ExtractSchoolFromLeague ==
    /\ extract_out = NotRun
    /\ school_data = <<>> /\ subject_data = <<>> /\ raw = NotRun
    /\ extract_out' = GetSchoolDataFromSources(league_df, school_names)
    /\ league_df' = LeagueAfterExtract(league_df, school_names)
    /\ UNCHANGED <<school_data, school_names, total_out, assess_out, league_out,
                   subject_data, scores_out, by_class_out, raw, read_out, extract_again,
                   subject_lines, lines_out, class_table_out, analyze_out>>

\* the same extraction called once more with the same table and names
ExtractSchoolFromLeagueAgain ==
    /\ extract_out # NotRun /\ extract_again = NotRun
    /\ school_data = <<>> /\ subject_data = <<>> /\ raw = NotRun
    /\ extract_again' = GetSchoolDataFromSources(league_df, school_names)
    /\ league_df' = LeagueAfterExtract(league_df, school_names)
    /\ UNCHANGED <<school_data, school_names, total_out, assess_out, extract_out,
                   league_out, subject_data, scores_out, by_class_out, raw, read_out,
                   subject_lines, lines_out, class_table_out, analyze_out>>

AnalyzeLeagueScores ==
    /\ league_out = NotRun
    /\ school_data = <<>> /\ subject_data = <<>> /\ raw = NotRun
    /\ league_out' = AnalyzeLeagueScoresResult(league_df, school_names, ScoreLineList)
    /\ UNCHANGED <<school_data, league_df, school_names, total_out, assess_out,
                   extract_out, subject_data, scores_out, by_class_out, raw, read_out,
                   extract_again, subject_lines, lines_out, class_table_out,
                   analyze_out>>

\* the analyze request with a league file, no school file and the score lines
\* of the request: the ValueError of the school tables is caught and leaves
\* school_analysis empty; the league analysis runs only with school names; any
\* other exception, and a ValueError of the league analysis, answers 500
AnalyzeResult(league, names, score_lines) ==
    LET got == GetSchoolDataFromSources(league, names)
        school_analysis == IF got.status = "ok"
                           THEN AnalyzeSchoolScoresResult(got.tables).results
                           ELSE <<>>
        league_res == AnalyzeLeagueScoresResult(league, names, score_lines)
    IN  IF names # <<>> /\ league_res.status = "raised"
        THEN [code |-> 500, success |-> FALSE,
              school_analysis |-> <<>>, league_analysis |-> <<>>]
        ELSE [code |-> 200, success |-> TRUE,
              school_analysis |-> school_analysis,
              league_analysis |-> IF names # <<>> THEN league_res.results ELSE <<>>]

Analyze ==
    /\ analyze_out = NotRun
    /\ school_data = <<>> /\ subject_data = <<>> /\ raw = NotRun
    /\ analyze_out' = AnalyzeResult(league_df, school_names, ScoreLineList)
    /\ UNCHANGED <<school_data, league_df, school_names, total_out, assess_out,
                   extract_out, league_out, subject_data, scores_out, by_class_out,
                   raw, read_out, extract_again, subject_lines, lines_out,
                   class_table_out>>

NextLeague ==
    \/ ExtractSchoolFromLeague
    \/ ExtractSchoolFromLeagueAgain
    \/ AnalyzeLeagueScores
    \/ Analyze

SpecLeague == InitLeague /\ [][NextLeague]_vars

----------------------------------------------------------------------------
(* analyze_subject_score_lines and analyze_class_subjects_table            *)
(*                                                                         *)
(* subject_score_lines is [items], the (subject, line) pairs of the dict   *)
(* in insertion order.                                                     *)

\* subject in subject_score_lines
HasLine(items, subject) == \E i \in DOMAIN items : items[i].subject = subject

\* subject_score_lines[subject]
LineOf(items, subject) ==
    LET i == CHOOSE k \in DOMAIN items : items[k].subject = subject IN items[i].line

\* df[df['班级'].astype(str).str.strip() == class_name]
RowsOfClass(df, class_name) ==
    LET In(r) == Strip(IF r.cls = NA THEN "nan" ELSE r.cls) = class_name IN SelectSeq(df.rows, In)

\* the raw class values kept for the statistics: not null, not blank once
\* stripped, not the string 'nan', in order of first appearance
UniqueClasses(df) ==
    LET Ok(r) == r.cls # NA /\ Strip(r.cls) # "" /\ r.cls # "nan"
        C(r) == r.cls
    IN  Unique(MapSeq(C, SelectSeq(df.rows, Ok)))

\* one class entry of a subject against its line
LineClassStat(df, class_name_str, score_line) ==
    LET class_df == RowsOfClass(df, class_name_str)
        Passed(r) == r.score >= score_line
        class_passed == SelectSeq(class_df, Passed)
    IN  [class_name |-> class_name_str,
         total_students |-> Len(class_df),
         passed_count |-> Len(class_passed),
         pass_rate |-> PassRate(Len(class_passed), Len(class_df))]

\* variant: class_stats in order of first appearance, the sort left out
LineClassStatsUnsorted(df, score_line) ==
    IF ~df.hasClass THEN <<>>
    ELSE LET Named(c) == Strip(c) \notin {"", "nan"}
             Stat(c) == LineClassStat(df, Strip(c), score_line)
         IN  MapSeq(Stat, SelectSeq(UniqueClasses(df), Named))

\* class_stats of one subject, sorted by pass_rate descending
LineClassStats(df, score_line) ==
    IF ~df.hasClass THEN <<>>
    ELSE LET Named(c) == Strip(c) \notin {"", "nan"}
             Stat(c) == LineClassStat(df, Strip(c), score_line)
             Key(x) == x.pass_rate
         IN  SortDesc(Key, MapSeq(Stat, SelectSeq(UniqueClasses(df), Named)))

\* analyze_subject_score_lines(school_data, total_score_line, subject_score_lines):
\* results['subjects'], one entry per subject of the mapping that has rows
AnalyzeSubjectScoreLinesResult(tables, items) ==
    LET Present(it) ==
            \E i \in DOMAIN tables : tables[i].subject = it.subject /\ tables[i].rows # <<>>
        Entry(it) ==
            LET df == TableOf(tables, it.subject)
                Passed(r) == r.score >= it.line
                passed == SelectSeq(df.rows, Passed)
            IN  [subject |-> it.subject,
                 score_line |-> it.line,
                 total_students |-> Len(df.rows),
                 passed_count |-> Len(passed),
                 pass_rate |-> PassRate(Len(passed), Len(df.rows)),
                 class_stats |-> LineClassStats(df, it.line)]
    IN  [status |-> "ok", subjects |-> MapSeq(Entry, SelectSeq(items, Present))]

\* all_classes: the stripped labels of every table that has a 班级 column
AllClasses(tables) ==
    {Strip(c) : c \in {x \in UNION {Range(UniqueClasses(tables[i])) :
                                       i \in {k \in DOMAIN tables : tables[k].hasClass}} :
                          Strip(x) \notin {"", "nan"}}}

\* variant: a class without rows in a subject gets a zero-filled cell
CellSubjectsZeroFilled(tables, items, class_name) ==
    {tables[i].subject : i \in {k \in DOMAIN tables :
        /\ tables[k].rows # <<>>
        /\ HasLine(items, tables[k].subject)
        /\ tables[k].hasClass}}

\* the subjects that write a cell for class_name
CellSubjects(tables, items, class_name) ==
    {tables[i].subject : i \in {k \in DOMAIN tables :
        /\ tables[k].rows # <<>>
        /\ HasLine(items, tables[k].subject)
        /\ tables[k].hasClass
        /\ RowsOfClass(tables[k], class_name) # <<>>}}

\* analyze_class_subjects_table(school_data, score_line, subject_score_lines):
\* results['classes']
AnalyzeClassSubjectsTableResult(tables, items) ==
    LET Cell(c, s) ==
            LET x == LineClassStat(TableOf(tables, s), c, LineOf(items, s))
            IN  [total_students |-> x.total_students,
                 passed_count |-> x.passed_count,
                 pass_rate |-> x.pass_rate]
    IN  [status |-> "ok",
         classes |-> [c \in AllClasses(tables) |->
                         [s \in CellSubjects(tables, items, c) |-> Cell(c, s)]]]

\* the mappings of the requests: none, one subject, two, and one naming a
\* subject the school has no table of
LineItems ==
    {<<>>,
     <<[subject |-> "math", line |-> 1]>>,
     <<[subject |-> "math", line |-> 2]>>,
     <<[subject |-> "math", line |-> 1], [subject |-> "english", line |-> 1]>>,
     <<[subject |-> "english", line |-> 2], [subject |-> "math", line |-> 2]>>,
     <<[subject |-> "physics", line |-> 1], [subject |-> "english", line |-> 1]>>}

InitLines ==
    /\ \E a \in StatTables("math", StatClasses, MaxLineRows) :
          \E b \in StatTables("english", RawClasses, 1) :
             subject_data = <<a, b>>
    /\ \E items \in LineItems : subject_lines = [items |-> items]
    /\ school_data = <<>>
    /\ league_df = NoLeague
    /\ school_names = <<>>
    /\ total_out = NotRun
    /\ assess_out = NotRun
    /\ extract_out = NotRun
    /\ league_out = NotRun
    /\ scores_out = NotRun
    /\ by_class_out = NotRun
    /\ raw = NotRun
    /\ read_out = NotRun
    /\ extract_again = NotRun
    /\ lines_out = NotRun
    /\ class_table_out = NotRun
    /\ analyze_out = NotRun

AnalyzeSubjectScoreLines ==
    /\ lines_out = NotRun
    /\ subject_lines # NotRun
    /\ lines_out' = AnalyzeSubjectScoreLinesResult(subject_data, subject_lines.items)
    /\ UNCHANGED <<school_data, league_df, school_names, total_out, assess_out,
                   extract_out, league_out, subject_data, scores_out, by_class_out, raw,
                   read_out, extract_again, subject_lines, class_table_out, analyze_out>>

AnalyzeClassSubjectsTable ==
    /\ class_table_out = NotRun
    /\ subject_lines # NotRun
    /\ class_table_out' = AnalyzeClassSubjectsTableResult(subject_data, subject_lines.items)
    /\ UNCHANGED <<school_data, league_df, school_names, total_out, assess_out,
                   extract_out, league_out, subject_data, scores_out, by_class_out, raw,
                   read_out, extract_again, subject_lines, lines_out, analyze_out>>

NextLines == AnalyzeSubjectScoreLines \/ AnalyzeClassSubjectsTable

SpecLines == InitLines /\ [][NextLines]_vars

----------------------------------------------------------------------------
(* read_league_data and read_school_data                                   *)
(*                                                                         *)
(* The input is the sheet as pd.read_excel returns it: a cell is null (NA) *)
(* or a string; "0", "1" and "2" stand for cells that hold or spell a      *)
(* number, "x" for a text no number can be read from.  A row keeps its     *)
(* pandas index (idx) through every filter.                                *)

\* pd.to_numeric(cell, errors='coerce')
ToNumeric(c) ==
    CASE c = "0" -> 0
      [] c = "1" -> 1
      [] c = "2" -> 2
      [] OTHER -> NaN

\* astype(str) of one cell: a null cell becomes the string 'nan'
AsStr(c) == IF c = NA THEN "nan" ELSE c

\* the rows i of 1 .. n that satisfy Keep, in order
RECURSIVE KeptIndices(_, _)
KeptIndices(n, keep) ==
    IF n = 0 THEN <<>>
    ELSE IF keep[n] THEN Append(KeptIndices(n - 1, keep), n)
    ELSE KeptIndices(n - 1, keep)

\* variant: dropna(subset=score_cols, how='any')
ReadLeagueDataDropAny(sheet) ==
    LET n == Len(sheet.rows)
        Conv(i) ==
            LET r == sheet.rows[i]
            IN  [idx |-> i,
                 school |-> IF sheet.hasSchool THEN AsStr(r.school) ELSE NA,
                 name |-> AsStr(r.name),
                 cls |-> AsStr(r.cls),
                 sc |-> [s \in DOMAIN r.sc |->
                            IF s \in Range(sheet.score_cols) THEN ToNumeric(r.sc[s]) ELSE NaN]]
        keep == [i \in 1 .. n |->
                    \/ sheet.score_cols = <<>>
                    \/ \A s \in Range(sheet.score_cols) : Conv(i).sc[s] # NaN]
    IN  [status |-> "ok", layout |-> "league",
         hasSchool |-> sheet.hasSchool, score_cols |-> sheet.score_cols,
         rows |-> MapSeq(Conv, KeptIndices(n, keep))]

\* read_league_data after the column selection: string columns through
\* astype(str), score columns through to_numeric, then
\* dropna(subset=score_cols, how='all') when a score column was found
ReadLeagueDataResult(sheet) ==
    LET n == Len(sheet.rows)
        Conv(i) ==
            LET r == sheet.rows[i]
            IN  [idx |-> i,
                 school |-> IF sheet.hasSchool THEN AsStr(r.school) ELSE NA,
                 name |-> AsStr(r.name),
                 cls |-> AsStr(r.cls),
                 sc |-> [s \in DOMAIN r.sc |->
                            IF s \in Range(sheet.score_cols) THEN ToNumeric(r.sc[s]) ELSE NaN]]
        keep == [i \in 1 .. n |->
                    \/ sheet.score_cols = <<>>
                    \/ \E s \in Range(sheet.score_cols) : Conv(i).sc[s] # NaN]
    IN  [status |-> "ok", layout |-> "league",
         hasSchool |-> sheet.hasSchool, score_cols |-> sheet.score_cols,
         rows |-> MapSeq(Conv, KeptIndices(n, keep))]

\* the headers the wide layout never takes for a subject: 班级, 姓名, 学号,
\* 得分, 分数, 成绩
ReservedHeaders == {"class", "name", "id", "score", "mark", "result"}

\* col_name.startswith('Unnamed:')
IsUnnamed(h) == h = "Unnamed: 5"

\* str(col).strip() of a header of the model
StripHeader(h) == IF h = " " THEN "" ELSE h

\* pd.to_numeric(col_data, errors='coerce').notna().sum()
NumericCount(cells) == Cardinality({i \in DOMAIN cells : ToNumeric(cells[i]) # NaN})

\* the test of one column from index 5 on
IsSubjectColumn(col) ==
    LET col_name == StripHeader(col.header)
    IN  /\ col_name # ""
        /\ ~IsUnnamed(col_name)
        /\ col_name \notin ReservedHeaders
        /\ NumericCount(col.cells) * 2 > Len(col.cells)

\* subject_df of one subject column of the wide layout
WideSubjectTable(sheet, col) ==
    LET n == Len(sheet.rows)
        Conv(i) == [idx |-> i,
                    name |-> Strip(AsStr(sheet.rows[i].name)),
                    cls |-> ReplaceBlank(Strip(AsStr(sheet.rows[i].cls))),
                    score |-> ToNumeric(col.cells[i])]
        keep == [i \in 1 .. n |-> Conv(i).name # NA /\ Conv(i).score # NaN]
    IN  [subject |-> StripHeader(col.header), hasClass |-> TRUE,
         rows |-> MapSeq(Conv, KeptIndices(n, keep))]

\* the table of one sheet of the multi-sheet layout, <<>> rows when reading
\* the sheet raises (the exception is caught per sheet) or the sheet lacks
\* a 姓名 or a 得分 column
SheetTable(sheet) ==
    LET n == Len(sheet.rows)
        Conv(i) == [idx |-> i,
                    name |-> sheet.rows[i].name,
                    cls |-> IF sheet.hasClass THEN AsStr(sheet.rows[i].cls) ELSE NA,
                    score |-> ToNumeric(sheet.rows[i].score)]
        keep == [i \in 1 .. n |->
                    /\ sheet.rows[i].name # NA /\ sheet.rows[i].score # NA
                    /\ Conv(i).score # NaN]
    IN  [subject |-> sheet.subject, hasClass |-> sheet.hasClass,
         rows |-> IF sheet.parses /\ sheet.hasName /\ sheet.hasScore
                  THEN MapSeq(Conv, KeptIndices(n, keep)) ELSE <<>>]

\* variant: a sheet that cannot be parsed makes the whole call raise
RaisesOnBrokenSheet(file) ==
    \/ file.layout = "unreadable"
    \/ \E i \in DOMAIN file.sheets : ~file.sheets[i].parses

\* the outer handler re-raises what pd.ExcelFile or sheet_names raised: the
\* workbook cannot be opened
Raises(file) == file.layout = "unreadable"

\* the wide detection: the subject columns found and the tables with rows;
\* nothing when the first sheet does not match or the detection throws
WideDetection(file) ==
    LET NonEmpty(t) == t.rows # <<>>
        subject_cols == SelectSeq(file.cols, IsSubjectColumn)
        Table(col) == WideSubjectTable(file, col)
        Header(col) == StripHeader(col.header)
    IN  IF file.layout = "wide" /\ ~file.throws
        THEN [subject_cols |-> MapSeq(Header, subject_cols),
              tables |-> SelectSeq(MapSeq(Table, subject_cols), NonEmpty)]
        ELSE [subject_cols |-> <<>>, tables |-> <<>>]

\* the multi-sheet detection: every sheet but the one named 总分
SheetDetection(file) ==
    LET NonEmpty(t) == t.rows # <<>>
        NotTotal(sh) == ~(sh.subject = "total")
        subjects == SelectSeq(file.sheets, NotTotal)
        Subject(sh) == sh.subject
    IN  [subjects |-> MapSeq(Subject, subjects),
         tables |-> SelectSeq(MapSeq(SheetTable, subjects), NonEmpty)]

\* variant: the result of a wide detection that ran is returned even when empty
WideReturnedAlways(file, wide) == file.layout = "wide" /\ ~file.throws

\* if len(result) > 0: return result
WideReturned(file, wide) == wide.tables # <<>>

\* read_school_data: layout says which detection produced the tables
ReadSchoolDataResult(file) ==
    IF Raises(file)
    THEN [status |-> "raised", layout |-> "none", subject_cols |-> <<>>,
          subjects |-> <<>>, tables |-> <<>>]
    ELSE LET wide == WideDetection(file)
             old == SheetDetection(file)
         IN  IF WideReturned(file, wide)
             THEN [status |-> "ok", layout |-> "wide", subject_cols |-> wide.subject_cols,
                   subjects |-> <<>>, tables |-> wide.tables]
             ELSE [status |-> "ok", layout |-> "sheets", subject_cols |-> wide.subject_cols,
                   subjects |-> old.subjects, tables |-> old.tables]

\* the cells of the model
NameCells == {NA, "Ann"}
ClassCells == {NA, "1", " 2"}
ScoreCells == {NA, "1", "x"}
WideHeaders == {"math", " ", "Unnamed: 5", "score"}

\* the league sheets: the score columns found, rows of cells
RawLeagueSheets ==
    {[layout |-> "league", hasSchool |-> h, score_cols |-> cols, rows |-> rs] :
        h \in BOOLEAN,
        cols \in {LeagueSubjects, <<"math">>, <<>>},
        rs \in SeqUpTo([school : {"A"}, name : {"Ann"}, cls : {NA, "1"},
                        sc : [Range(LeagueSubjects) -> ScoreCells]], MaxReadRows) \ {<<>>}}

\* the sheets of a multi-sheet file: a subject sheet, and possibly a 总分 sheet
RawSubjectSheets ==
    {[subject |-> "math", parses |-> TRUE, hasName |-> TRUE, hasScore |-> TRUE,
      hasClass |-> TRUE, rows |-> rs] :
        rs \in SeqUpTo([name : NameCells, cls : ClassCells, score : ScoreCells], MaxReadRows)}
      \cup
    {[subject |-> "math", parses |-> TRUE, hasName |-> hn, hasScore |-> hs,
      hasClass |-> FALSE, rows |-> rs] :
        hn \in BOOLEAN, hs \in BOOLEAN,
        rs \in SeqUpTo([name : NameCells, cls : {NA}, score : ScoreCells], 1)}
RawTotalSheets ==
    {[subject |-> "total", parses |-> TRUE, hasName |-> TRUE, hasScore |-> TRUE,
      hasClass |-> FALSE, rows |-> <<[name |-> "Ann", cls |-> NA, score |-> "1"]>>]}

\* a sheet pd.read_excel raises on
BrokenSheet ==
    [subject |-> "english", parses |-> FALSE, hasName |-> FALSE, hasScore |-> FALSE,
     hasClass |-> FALSE, rows |-> <<>>]

\* the first sheet of a wide workbook read with header=1: its second row
\* is taken for the headers, and no cell of the model spells 姓名 or 得分
WideSheetAsSubject ==
    [subject |-> "Sheet1", parses |-> TRUE, hasName |-> FALSE, hasScore |-> FALSE,
     hasClass |-> FALSE, rows |-> <<>>]

\* a further sheet of a wide workbook, in the multi-sheet format
PhysicsSheet ==
    [subject |-> "physics", parses |-> TRUE, hasName |-> TRUE, hasScore |-> TRUE,
     hasClass |-> TRUE, rows |-> <<[name |-> "Ann", cls |-> " 2", score |-> "1"]>>]

\* the sheets of a wide workbook as the multi-sheet detection sees them
WideWorkbookSheets ==
    {<<WideSheetAsSubject>>, <<WideSheetAsSubject, PhysicsSheet>>,
     <<WideSheetAsSubject, BrokenSheet, PhysicsSheet>>}

InitRead ==
    /\ \/ raw \in RawLeagueSheets
       \/ raw = [layout |-> "unreadable"]
       \/ \E n \in 0 .. MaxReadRows :
             \E rs \in [1 .. n -> [name : NameCells, cls : ClassCells]] :
                \E h \in WideHeaders, c1 \in [1 .. n -> ScoreCells] :
                   \/ \E t \in BOOLEAN, sh \in WideWorkbookSheets :
                         /\ t => n = 1
                         /\ Len(sh) = 3 => n = 1
                         /\ raw = [layout |-> "wide", throws |-> t, rows |-> rs,
                                   cols |-> <<[header |-> h, cells |-> c1]>>, sheets |-> sh]
                   \/ \E c2 \in [1 .. n -> ScoreCells] :
                         raw = [layout |-> "wide", throws |-> FALSE, rows |-> rs,
                                cols |-> <<[header |-> h, cells |-> c1],
                                           [header |-> "english", cells |-> c2]>>,
                                sheets |-> <<WideSheetAsSubject>>]
       \/ \E a \in RawSubjectSheets :
             \/ raw = [layout |-> "sheets", sheets |-> <<a>>]
             \/ \E t \in RawTotalSheets : raw = [layout |-> "sheets", sheets |-> <<a, t>>]
             \/ Len(a.rows) <= 1 /\ raw = [layout |-> "sheets", sheets |-> <<BrokenSheet, a>>]
    /\ school_data = <<>>
    /\ league_df = NoLeague
    /\ school_names = <<>>
    /\ total_out = NotRun
    /\ assess_out = NotRun
    /\ extract_out = NotRun
    /\ league_out = NotRun
    /\ subject_data = <<>>
    /\ scores_out = NotRun
    /\ by_class_out = NotRun
    /\ read_out = NotRun
    /\ extract_again = NotRun
    /\ subject_lines = NotRun
    /\ lines_out = NotRun
    /\ class_table_out = NotRun
    /\ analyze_out = NotRun

ReadLeagueData ==
    /\ read_out = NotRun
    /\ raw # NotRun /\ raw.layout = "league"
    /\ read_out' = ReadLeagueDataResult(raw)
    /\ UNCHANGED <<school_data, league_df, school_names, total_out, assess_out,
                   extract_out, league_out, subject_data, scores_out, by_class_out, raw,
                   extract_again, subject_lines, lines_out, class_table_out,
                   analyze_out>>

ReadSchoolData ==
    /\ read_out = NotRun
    /\ raw # NotRun /\ raw.layout \in {"wide", "sheets", "unreadable"}
    /\ read_out' = ReadSchoolDataResult(raw)
    /\ UNCHANGED <<school_data, league_df, school_names, total_out, assess_out,
                   extract_out, league_out, subject_data, scores_out, by_class_out, raw,
                   extract_again, subject_lines, lines_out, class_table_out,
                   analyze_out>>

NextRead == ReadLeagueData \/ ReadSchoolData

SpecRead == InitRead /\ [][NextRead]_vars

----------------------------------------------------------------------------

Init == InitSchool \/ InitLeague \/ InitSubjects \/ InitLines \/ InitRead

Next == NextSchool \/ NextLeague \/ NextSubjects \/ NextLines \/ NextRead

Spec == Init /\ [][Next]_vars

----------------------------------------------------------------------------
(* Properties *)

Abs(x) == IF x < 0 THEN 0 - x ELSE x

\* h, in hundredths, is num / den rounded to two decimals
IsRounded(h, num, den) == 2 * Abs(h * den - num * 100) <= den

\* the number of rows that satisfy P
CountRows(rows, P(_)) == Cardinality({i \in DOMAIN rows : P(rows[i])})

\* pass_rate as the claims define it: count(total >= line) / total_students * 100
\* to two decimals, 0 without students
RateIs(rate, rows, line) ==
    LET Passed(r) == r.total >= line
    IN  IF rows = <<>> THEN rate = 0
        ELSE IsRounded(rate, CountRows(rows, Passed) * 100, Len(rows))

TotalRan == total_out # NotRun
AssessRan == assess_out # NotRun
ExtractRan == extract_out # NotRun
LeagueRan == league_out # NotRun

\* C1: in total-score mode, for every score line, passed_count +
\* not_passed_count = total_students.
ThmC1 ==
    TotalRan =>
        \A l \in DOMAIN total_out.results :
            LET r == total_out.results[l]
            IN  r.passed_count + r.not_passed_count = r.total_students

\* a line that some students pass, some fail and one meets exactly
WitC1 ==
    /\ TotalRan
    /\ \E l \in DOMAIN total_out.results :
          /\ total_out.results[l].passed_count > 0
          /\ total_out.results[l].not_passed_count > 0
          /\ \E i \in DOMAIN total_out.students : total_out.students[i].total = l

\* C2: for lines L1 <= L2 the pass_rate reported for L2 is not greater than
\* the one reported for L1, in the school total-score analysis and in the
\* league-wide analysis (league, queried school and each school of the table).
ThmC2 ==
    /\ TotalRan =>
          \A l1, l2 \in DOMAIN total_out.results :
              l1 <= l2 => total_out.results[l2].pass_rate <= total_out.results[l1].pass_rate
    /\ LeagueRan =>
          \A l1, l2 \in DOMAIN league_out.results :
              l1 <= l2 =>
                  LET r1 == league_out.results[l1]
                      r2 == league_out.results[l2]
                  IN  /\ r2.league_pass_rate <= r1.league_pass_rate
                      /\ r2.school_pass_rate <= r1.school_pass_rate
                      /\ \A i \in DOMAIN r1.school_stats, j \in DOMAIN r2.school_stats :
                            r1.school_stats[i].school_name = r2.school_stats[j].school_name
                                => r2.school_stats[j].pass_rate <= r1.school_stats[i].pass_rate

\* a league analysis whose pass rate falls strictly from line to line
WitC2 ==
    /\ LeagueRan
    /\ league_out.status = "ok"
    /\ DOMAIN league_out.results = Range(ScoreLineList)
    /\ league_out.results[1].league_pass_rate > league_out.results[2].league_pass_rate
    /\ league_out.results[2].league_pass_rate > league_out.results[3].league_pass_rate

\* C3: every reported pass_rate is count(total >= line) / total_students * 100
\* rounded to two decimals; with no student the pass_rate is 0 and no error
\* is raised.
CexC3 ==
    /\ TotalRan =>
          \A l \in DOMAIN total_out.results :
              RateIs(total_out.results[l].pass_rate, total_out.students, l)
    /\ LeagueRan =>
          /\ league_out.students = <<>> => league_out.status = "ok"
          /\ \A l \in DOMAIN league_out.results :
                /\ RateIs(league_out.results[l].league_pass_rate, league_out.students, l)
                /\ \A i \in DOMAIN league_out.results[l].school_stats :
                      LET st == league_out.results[l].school_stats[i]
                          In(r) == r.school = st.school_name
                      IN  RateIs(st.pass_rate, SelectSeq(league_out.students, In), l)

\* the merged rows that lack the score of some subject
Partial(r) == \E c \in DOMAIN r.sc : r.sc[c] = NaN

\* the sum of the scores a merged row has
RECURSIVE PresentSum(_, _)
PresentSum(sc, cols) ==
    IF cols = {} THEN 0
    ELSE LET c == CHOOSE x \in cols : TRUE
         IN  (IF sc[c] = NaN THEN 0 ELSE sc[c]) + PresentSum(sc, cols \ {c})

\* no column of the merged table is a pre-existing total
NoTotalColumn(df) == \A c \in Range(df.subjects) : ~ContainsTotal(c)

\* the merged row r is among the students an analysis kept, with total t
KeptWith(students, r, t) ==
    \E i \in DOMAIN students :
        /\ students[i].name = r.name /\ students[i].cls = r.cls /\ students[i].sc = r.sc
        /\ students[i].total = t

Kept(students, r) ==
    \E i \in DOMAIN students :
        students[i].name = r.name /\ students[i].cls = r.cls /\ students[i].sc = r.sc

\* the merged row r is listed among the excluded students
Listed(df, excluded, r) ==
    \E i \in DOMAIN excluded :
        /\ excluded[i].name = r.name
        /\ df.hasCls => excluded[i].cls = (IF r.cls = NA THEN "nan" ELSE r.cls)

\* C4 as claimed: without a pre-existing total column, a student absent from a
\* subject table is kept by the pass-line path with total = the sum of the
\* scores present, and is left out of the class assessment and listed in
\* excluded_students.
CexC4 ==
    /\ (TotalRan /\ total_out.merged # NotRun /\ NoTotalColumn(total_out.merged)) =>
          \A i \in DOMAIN total_out.merged.rows :
              LET r == total_out.merged.rows[i]
              IN  Partial(r) =>
                      KeptWith(total_out.students, r, PresentSum(r.sc, DOMAIN r.sc))
    /\ (AssessRan /\ assess_out.merged # NotRun /\ NoTotalColumn(assess_out.merged)) =>
          \A i \in DOMAIN assess_out.merged.rows :
              LET r == assess_out.merged.rows[i]
              IN  Partial(r) =>
                      /\ ~Kept(assess_out.students, r)
                      /\ Listed(assess_out.merged, assess_out.excluded_students, r)

\* C4 amended: the pass-line path keeps such a student, with total = the sum of
\* the scores present, exactly when that sum is > 0; the class assessment
\* leaves the student out and lists the student in excluded_students.
ThmC4 ==
    /\ (TotalRan /\ total_out.merged # NotRun /\ NoTotalColumn(total_out.merged)) =>
          \A i \in DOMAIN total_out.merged.rows :
              LET r == total_out.merged.rows[i]
                  sum == PresentSum(r.sc, DOMAIN r.sc)
              IN  Partial(r) =>
                      IF sum > 0 THEN KeptWith(total_out.students, r, sum)
                      ELSE ~Kept(total_out.students, r)
    /\ (AssessRan /\ assess_out.merged # NotRun /\ NoTotalColumn(assess_out.merged)) =>
          \A i \in DOMAIN assess_out.merged.rows :
              LET r == assess_out.merged.rows[i]
              IN  Partial(r) =>
                      /\ ~Kept(assess_out.students, r)
                      /\ Listed(assess_out.merged, assess_out.excluded_students, r)

\* one mapping analysed both ways: a student with a math score and no english
\* score is kept by the pass-line path and excluded by the class assessment,
\* next to a student with both scores
WitC4 ==
    /\ TotalRan /\ AssessRan
    /\ total_out.merged # NotRun /\ assess_out.merged # NotRun
    /\ total_out.merged.subjects = <<"math", "english">>
    /\ \E i, j \in DOMAIN total_out.merged.rows :
          LET r == total_out.merged.rows[i]
              o == total_out.merged.rows[j]
          IN  /\ r.sc["math"] > 0 /\ r.sc["english"] = NaN
              /\ ~Partial(o)
              /\ KeptWith(total_out.students, r, r.sc["math"])
              /\ ~Kept(assess_out.students, r)
              /\ Listed(assess_out.merged, assess_out.excluded_students, r)
              /\ Kept(assess_out.students, o)

\* the subject columns of a merged table that are not a pre-existing total
SubjectColumns(df) == {c \in Range(df.subjects) : ~ContainsTotal(c)}

KeyIsNameAndClass(tables) == \A i \in DOMAIN tables : tables[i].hasClass

\* no subject table carries one: the join key is the name alone
KeyIsName(tables) == \A i \in DOMAIN tables : ~tables[i].hasClass

\* the join key of a merged row
RowKey(tables, r) == IF KeyIsNameAndClass(tables) THEN <<r.name, r.cls>> ELSE <<r.name>>

\* the join keys that occur in the subject tables, as the merge cleans them
InputKeys(tables) ==
    UNION {{IF KeyIsNameAndClass(tables)
            THEN <<Strip(r.name), ReplaceBlank(Strip(r.cls))>>
            ELSE <<Strip(r.name)>> : r \in Range(tables[i].rows)} : i \in DOMAIN tables}

OneRowPerKey(tables, df) ==
    /\ \A i, j \in DOMAIN df.rows :
          RowKey(tables, df.rows[i]) = RowKey(tables, df.rows[j]) => i = j
    /\ \A k \in InputKeys(tables) : \E i \in DOMAIN df.rows : RowKey(tables, df.rows[i]) = k
    /\ \A i \in DOMAIN df.rows : RowKey(tables, df.rows[i]) \in InputKeys(tables)

\* C6: the merged table holds exactly one row per distinct (name, class) key
\* (per name when the key is the name alone) of the subject tables, also when
\* a subject table holds a key more than once.
CexC6 ==
    (KeyIsNameAndClass(school_data) \/ KeyIsName(school_data)) =>
        /\ (TotalRan /\ total_out.merged # NotRun) => OneRowPerKey(school_data, total_out.merged)
        /\ (AssessRan /\ assess_out.merged # NotRun) => OneRowPerKey(school_data, assess_out.merged)

\* the same statement for subject tables that hold no key twice
NoDuplicateKeys(tables) ==
    \A t \in DOMAIN tables : \A i, j \in DOMAIN tables[t].rows :
        (/\ Strip(tables[t].rows[i].name) = Strip(tables[t].rows[j].name)
         /\ KeyIsNameAndClass(tables) =>
                ReplaceBlank(Strip(tables[t].rows[i].cls)) = ReplaceBlank(Strip(tables[t].rows[j].cls)))
            => i = j

OneRowPerKeyWithoutDuplicates ==
    (NoDuplicateKeys(school_data) /\ (KeyIsNameAndClass(school_data) \/ KeyIsName(school_data))) =>
        /\ (TotalRan /\ total_out.merged # NotRun) => OneRowPerKey(school_data, total_out.merged)
        /\ (AssessRan /\ assess_out.merged # NotRun) => OneRowPerKey(school_data, assess_out.merged)

\* the excluded_students list of a result; a result without the field records none
ExcludedOf(out) ==
    IF "excluded_students" \in DOMAIN out THEN out.excluded_students ELSE <<>>

\* the total the class assessment gives a merged row: the 总分 column when
\* there is one, else the sum of the subject scores, missing when one is missing
AssessTotal(df, r) ==
    IF ~NoTotalColumn(df) THEN r.sc["total"]
    ELSE IF Partial(r) THEN NaN
    ELSE PresentSum(r.sc, DOMAIN r.sc)

NullOrNotPositive(t) == t = NaN \/ t <= 0

\* C7 as claimed: every merged row whose total is null or <= 0 is left out of
\* the pass-line and class-assessment statistics and is recorded as an
\* excluded student.
CexC7 ==
    /\ (TotalRan /\ total_out.merged # NotRun) =>
          \A i \in DOMAIN total_out.merged.rows :
              LET r == total_out.merged.rows[i]
              IN  NullOrNotPositive(PresentSum(r.sc, SubjectColumns(total_out.merged))) =>
                      /\ ~Kept(total_out.students, r)
                      /\ Listed(total_out.merged, ExcludedOf(total_out), r)
    /\ (AssessRan /\ assess_out.merged # NotRun) =>
          \A i \in DOMAIN assess_out.merged.rows :
              LET r == assess_out.merged.rows[i]
              IN  NullOrNotPositive(AssessTotal(assess_out.merged, r)) =>
                      /\ ~Kept(assess_out.students, r)
                      /\ Listed(assess_out.merged, ExcludedOf(assess_out), r)

\* the entries of excluded_students that stand for the merged row r
EntriesFor(df, excluded, r, why) ==
    {i \in DOMAIN excluded :
        /\ excluded[i].name = r.name
        /\ excluded[i].reason = why
        /\ df.hasCls => excluded[i].cls = (IF r.cls = NA THEN "nan" ELSE r.cls)}

\* C7 amended: the pass-line analysis leaves out every merged row whose total
\* is <= 0 and records it nowhere (its result has no excluded list).  The
\* class assessment excludes and records, with a 总分 column, exactly the rows
\* whose 总分 is null or <= 0 and, without one, exactly the rows that lack a
\* subject score; a row with every subject score is kept there even when its
\* total is 0.
ThmC7 ==
    /\ (TotalRan /\ total_out.merged # NotRun) =>
          /\ "excluded_students" \notin DOMAIN total_out
          /\ \A i \in DOMAIN total_out.merged.rows :
                LET r == total_out.merged.rows[i]
                IN  Kept(total_out.students, r)
                        <=> PresentSum(r.sc, SubjectColumns(total_out.merged)) > 0
    /\ (AssessRan /\ assess_out.merged # NotRun) =>
          LET df == assess_out.merged
              Out(r) == IF NoTotalColumn(df) THEN Partial(r)
                        ELSE NullOrNotPositive(r.sc["total"])
              why == IF NoTotalColumn(df) THEN "missing subject score"
                     ELSE "total missing or zero"
          IN  /\ Len(assess_out.excluded_students) = CountRows(df.rows, Out)
              /\ Len(assess_out.students) + Len(assess_out.excluded_students) = Len(df.rows)
              /\ \A i \in DOMAIN df.rows :
                    IF Out(df.rows[i])
                    THEN /\ ~Kept(assess_out.students, df.rows[i])
                         /\ EntriesFor(df, assess_out.excluded_students, df.rows[i], why) # {}
                    ELSE Kept(assess_out.students, df.rows[i])

\* one mapping analysed both ways: a student with every subject score and a
\* total of 0 is dropped by the pass-line analysis, which still reports on
\* another student, and is counted by the class assessment, which excludes nobody
WitC7 ==
    /\ TotalRan /\ AssessRan
    /\ total_out.merged # NotRun /\ assess_out.merged # NotRun
    /\ total_out.students # <<>>
    /\ assess_out.excluded_students = <<>>
    /\ \E i \in DOMAIN assess_out.students :
          /\ assess_out.students[i].total = 0
          /\ ~Kept(total_out.students, assess_out.students[i])
          /\ \E j \in DOMAIN assess_out.class_results :
                assess_out.class_results[j].class_name = assess_out.students[i].cls

\* the position of the first student of class c among the students the class
\* assessment kept: the order in which the classes enter class_results
FirstOfClass(students, c) ==
    CHOOSE i \in DOMAIN students :
        students[i].cls = c /\ \A j \in 1 .. (i - 1) : students[j].cls # c

\* C8: with N classes in the class-assessment result the ranks are 1..N in the
\* order of the list, a class with a higher assessment_score never has a
\* larger rank, and classes with equal assessment_score keep the order in
\* which they entered (stable sort).
ThmC8 ==
    AssessRan =>
        LET cr == assess_out.class_results
        IN  /\ \A i \in DOMAIN cr : cr[i].rank = i
            /\ \A i, j \in DOMAIN cr :
                  cr[i].assessment_score > cr[j].assessment_score => cr[i].rank < cr[j].rank
            /\ \A i, j \in DOMAIN cr :
                  (/\ cr[i].assessment_score = cr[j].assessment_score
                   /\ FirstOfClass(assess_out.students, cr[i].class_name)
                          < FirstOfClass(assess_out.students, cr[j].class_name))
                      => cr[i].rank < cr[j].rank

\* two classes with the same assessment_score, class 2 entering first and
\* ranked first
WitC8 ==
    /\ AssessRan
    /\ Len(assess_out.class_results) = 2
    /\ assess_out.class_results[1].class_name = "2"
    /\ assess_out.class_results[1].assessment_score = assess_out.class_results[2].assessment_score
    /\ assess_out.class_results[1].assessment_score > 0
    /\ assess_out.class_results[1].rank = 1 /\ assess_out.class_results[2].rank = 2

\* C9: for every class of the class-assessment result, assessment_score is
\* 0.3 * tekong_rate + 0.7 * yiduan_rate (to two decimals), the rates being
\* count(total >= line) / class_total * 100 over the class's non-excluded
\* students, and it lies in [0, 100].
ThmC9 ==
    AssessRan =>
        \A k \in DOMAIN assess_out.class_results :
            LET x == assess_out.class_results[k]
                InClass(r) == r.cls = x.class_name
                Tekong(r) == InClass(r) /\ r.total >= assess_out.tekong_line
                Yiduan(r) == InClass(r) /\ r.total >= assess_out.yiduan_line
                n == CountRows(assess_out.students, InClass)
                tp == CountRows(assess_out.students, Tekong)
                yp == CountRows(assess_out.students, Yiduan)
            IN  /\ n > 0
                /\ x.total_students = n
                /\ x.tekong_passed = tp /\ x.yiduan_passed = yp
                /\ IsRounded(x.tekong_rate, tp * 100, n)
                /\ IsRounded(x.yiduan_rate, yp * 100, n)
                /\ IsRounded(x.assessment_score, 30 * tp + 70 * yp, n)
                /\ 0 <= x.assessment_score /\ x.assessment_score <= 10000

\* a class of three of whom one reaches the tekong line and two the yiduan
\* line: rates 33.33 and 66.67, score 56.67
WitC9 ==
    /\ AssessRan
    /\ \E k \in DOMAIN assess_out.class_results :
          LET x == assess_out.class_results[k]
          IN  /\ x.total_students = 3
              /\ x.tekong_passed = 1 /\ x.yiduan_passed = 2
              /\ x.tekong_rate = 3333 /\ x.yiduan_rate = 6667
              /\ x.assessment_score = 5667

\* the subject tables of the league rows whose school is one of the names
TablesOfSchools(league, names) ==
    LET In(r) == r.school \in Range(names)
        school_df == SelectSeq(league.rows, In)
        Sub(s) == SubjectFromLeague(school_df, s)
        NonEmpty(t) == t.rows # <<>>
    IN  SelectSeq(MapSeq(Sub, LeagueSubjects), NonEmpty)

\* C10: given the list of candidate school names, the extraction selects
\* exactly the league rows whose school equals one of the candidates: the
\* subject tables it returns are those of these rows.
CexC10 ==
    (ExtractRan /\ league_df.hasSchool /\ school_names # <<>>) =>
        extract_out.tables = TablesOfSchools(league_df, school_names)

SomeRowMatches(league, names) ==
    /\ LengthsMatch(league.rows, names)
    /\ \E i \in DOMAIN league.rows : SchoolMask(league.rows, names)[i]

\* no subject has a score for any row of the league table
NoSubjectScore(league) ==
    \A i \in DOMAIN league.rows : \A c \in Range(league.score_cols) : league.rows[i].sc[c] = NaN

ScoresRan == scores_out # NotRun
ByClassRan == by_class_out # NotRun

\* C13: the per-subject analyses, given a mapping in which a subject's table
\* is empty, return an entry for that subject whose statistics are all 0 and
\* whose class_stats is empty, and raise nothing.
ThmC13 ==
    \A i \in DOMAIN subject_data :
        subject_data[i].rows = <<>> =>
            LET s == subject_data[i].subject
            IN  /\ ScoresRan =>
                      /\ scores_out.status = "ok"
                      /\ s \in DOMAIN scores_out.results
                      /\ LET e == scores_out.results[s]
                         IN  /\ e.total_students = 0
                             /\ e.average_score = Zero /\ e.max_score = Zero
                             /\ e.min_score = Zero /\ e.median_score = Zero
                             /\ e.std_score = Zero
                             /\ DOMAIN e.class_stats = {}
                /\ ByClassRan =>
                      /\ by_class_out.status = "ok"
                      /\ s \in DOMAIN by_class_out.results
                      /\ LET e == by_class_out.results[s]
                         IN  /\ e.total_students = 0
                             /\ e.average_score = 0 /\ e.max_score = 0
                             /\ e.min_score = 0 /\ e.median_score = 0
                             /\ e.std_score = 0
                             /\ e.class_stats = <<>>

\* a mapping whose second table is empty and whose first is not, analysed by
\* both functions
WitC13 ==
    /\ ScoresRan /\ ByClassRan
    /\ Len(subject_data) = 2
    /\ subject_data[1].rows # <<>> /\ subject_data[2].rows = <<>>
    /\ scores_out.results["math"].total_students > 0
    /\ scores_out.results["english"].total_students = 0
    /\ by_class_out.results["english"].class_stats = <<>>

\* every score of the table is the same
AllIdentical(df) ==
    /\ df.rows # <<>>
    /\ \A i, j \in DOMAIN df.rows : df.rows[i].score = df.rows[j].score

\* C14: for every subject table with at least one row whose scores are all
\* identical, the per-subject statistics have std_score = 0 and
\* max = min = mean = median, for every number of rows.
CexC14 ==
    \A i \in DOMAIN subject_data :
        AllIdentical(subject_data[i]) =>
            LET s == subject_data[i].subject
                Same(e) == /\ e.std_score = Zero
                           /\ e.max_score = e.min_score
                           /\ e.min_score = e.average_score
                           /\ e.average_score = e.median_score
                SameRounded(e) == /\ e.std_score = 0
                                  /\ e.max_score = e.min_score
                                  /\ e.min_score = e.average_score
                                  /\ e.average_score = e.median_score
            IN  /\ ScoresRan => Same(scores_out.results[s])
                /\ ByClassRan => SameRounded(by_class_out.results[s])

\* the same statement for tables of at least two rows
IdenticalScoresOfTwoOrMore ==
    \A i \in DOMAIN subject_data :
        (AllIdentical(subject_data[i]) /\ Len(subject_data[i].rows) >= 2) =>
            LET s == subject_data[i].subject
            IN  /\ ScoresRan =>
                      LET e == scores_out.results[s]
                      IN  /\ e.std_score = Zero
                          /\ e.max_score = e.min_score /\ e.min_score = e.average_score
                          /\ e.average_score = e.median_score
                /\ ByClassRan =>
                      LET e == by_class_out.results[s]
                      IN  /\ e.std_score = 0
                          /\ e.max_score = e.min_score /\ e.min_score = e.average_score
                          /\ e.average_score = e.median_score

\* the per-school table of one score line is ordered by pass_rate, descending
SortedByPassRate(school_stats) ==
    \A i, j \in DOMAIN school_stats :
        i < j => school_stats[i].pass_rate >= school_stats[j].pass_rate

\* the 1-based index of the first entry of the per-school table whose school
\* is one of the queried names, 0 when there is none
RankOf(school_stats, names) ==
    LET hits == {i \in DOMAIN school_stats : school_stats[i].school_name \in Range(names)}
    IN  IF hits = {} THEN 0 ELSE CHOOSE i \in hits : \A j \in hits : i <= j

\* school_rank is the index k, null standing for no index
RankIs(school_rank, k) ==
    IF k = 0 THEN school_rank = NA ELSE school_rank # NA /\ school_rank = k

\* C15: in the league analysis the per-school table of every score line is
\* sorted by pass_rate descending, and the queried school's rank is its
\* 1-based index in that table, null when none of the queried names has rows.
CexC15 ==
    (LeagueRan /\ league_out.status = "ok" /\ league_df.hasSchool) =>
        \A l \in DOMAIN league_out.results :
            LET x == league_out.results[l]
            IN  /\ SortedByPassRate(x.school_stats)
                /\ RankIs(x.school_rank, RankOf(x.school_stats, school_names))

\* the part of C15 the code keeps: every per-school table is sorted by
\* pass_rate descending, and the rank is null when no queried name has rows
SchoolStatsSortedAndNoRankWithoutRows ==
    (LeagueRan /\ league_out.status = "ok") =>
        \A l \in DOMAIN league_out.results :
            LET x == league_out.results[l]
            IN  /\ SortedByPassRate(x.school_stats)
                /\ RankOf(x.school_stats, school_names) = 0 => x.school_rank = NA

\* no row of the league table has a valid total
NoValidLeagueStudent(league) ==
    \A i \in DOMAIN league.rows :
        ~ValidTotal(SumSkipNa(league.rows[i].sc, league.score_cols))

\* the total-score result of one line reports no student and zeros
ZeroTotalLine(x) ==
    /\ x.total_students = 0 /\ x.passed_count = 0 /\ x.not_passed_count = 0
    /\ x.pass_rate = 0 /\ x.average_score = 0
    /\ x.passed_avg_score = 0 /\ x.not_passed_avg_score = 0

\* the league result of one line reports no student and zeros
ZeroLeagueLine(x) ==
    /\ x.league_total = 0 /\ x.league_pass_rate = 0
    /\ x.school_total = 0 /\ x.school_pass_rate = 0
    /\ x.school_average_score = 0

\* C16: when the input yields no student with a valid total,
\* analyze_school_total_score and analyze_league_scores raise nothing and
\* return, for every requested score line, a result whose rates and averages
\* are all 0.
CexC16 ==
    /\ (TotalRan /\ total_out.status = "ok" /\ total_out.students = <<>>) =>
          \A l \in Range(ScoreLineList) :
              l \in DOMAIN total_out.results /\ ZeroTotalLine(total_out.results[l])
    /\ (LeagueRan /\ NoValidLeagueStudent(league_df)) =>
          /\ league_out.status = "ok"
          /\ \A l \in Range(ScoreLineList) :
                l \in DOMAIN league_out.results /\ ZeroLeagueLine(league_out.results[l])

\* what the code does for such an input: analyze_school_total_score returns
\* no line at all; analyze_league_scores returns no line when the table has no
\* score column, and zero-valued lines when it does and does not raise
NoValidStudentOutcome ==
    /\ (TotalRan /\ total_out.status = "ok" /\ total_out.students = <<>>) =>
          DOMAIN total_out.results = {}
    /\ (LeagueRan /\ NoValidLeagueStudent(league_df) /\ league_out.status = "ok") =>
          IF league_df.score_cols = <<>>
          THEN DOMAIN league_out.results = {}
          ELSE \A l \in Range(ScoreLineList) :
                  l \in DOMAIN league_out.results /\ ZeroLeagueLine(league_out.results[l])

ReadRan == read_out # NotRun
LeagueRead == ReadRan /\ raw.layout = "league"
SchoolRead == ReadRan /\ raw.layout \in {"wide", "sheets"}

\* every found score column of source row i is null after numeric coercion
AllScoresNull(sheet, i) ==
    \A s \in Range(sheet.score_cols) : ToNumeric(sheet.rows[i].sc[s]) = NaN

\* the rows of the output that come from source row i
OutputOf(rows, i) == {r \in Range(rows) : r.idx = i}

\* source row i is in the output once, its found scores coerced, the others null
RetainedAsRead(sheet, rows, i) ==
    /\ Cardinality(OutputOf(rows, i)) = 1
    /\ \A r \in OutputOf(rows, i) :
          \A s \in Range(sheet.score_cols) : r.sc[s] = ToNumeric(sheet.rows[i].sc[s])

\* C17: read_league_data drops a source row if and only if all of its found
\* subject score columns are null after numeric coercion; a row with a
\* non-null score is retained, its missing subjects left null.
CexC17 ==
    LeagueRead =>
        \A i \in DOMAIN raw.rows :
            IF AllScoresNull(raw, i)
            THEN OutputOf(read_out.rows, i) = {}
            ELSE RetainedAsRead(raw, read_out.rows, i)

\* C17, amended: when a score column was found, a row is dropped if and only
\* if all its found score columns are null after coercion, and a retained
\* row keeps its missing subjects null; when no score column was found, no
\* row is dropped.
ThmC17 ==
    LeagueRead =>
        \A i \in DOMAIN raw.rows :
            IF raw.score_cols # <<>> /\ AllScoresNull(raw, i)
            THEN OutputOf(read_out.rows, i) = {}
            ELSE RetainedAsRead(raw, read_out.rows, i)

\* a sheet with two score columns read: one row without any score dropped,
\* one row with one score of two retained
WitC17 ==
    /\ LeagueRead /\ Len(raw.score_cols) = 2
    /\ \E i, j \in DOMAIN raw.rows :
          /\ AllScoresNull(raw, i) /\ OutputOf(read_out.rows, i) = {}
          /\ ~AllScoresNull(raw, j)
          /\ \E s \in Range(raw.score_cols) : ToNumeric(raw.rows[j].sc[s]) = NaN
          /\ \E r \in OutputOf(read_out.rows, j) :
                \E s, t \in Range(raw.score_cols) : r.sc[s] = NaN /\ r.sc[t] # NaN

\* the source row a row of an output table was read from
SourceRow(file, subject, idx) ==
    IF read_out.layout = "wide" THEN file.rows[idx]
    ELSE LET sh == CHOOSE x \in Range(file.sheets) : x.subject = subject IN sh.rows[idx]

\* the source cell the score of a row of an output table was read from
SourceScore(file, subject, idx) ==
    IF read_out.layout = "wide"
    THEN LET col == CHOOSE c \in Range(file.cols) : StripHeader(c.header) = subject
         IN  col.cells[idx]
    ELSE SourceRow(file, subject, idx).score

\* C18: every row of every subject table read_school_data returns, in both
\* layouts, has a non-null name and a non-null numeric score: a source row
\* with a null name, or with a null or unparseable score, is not in the output.
CexC18 ==
    SchoolRead =>
        \A t \in Range(read_out.tables) :
            \A r \in Range(t.rows) :
                /\ r.name # NA /\ r.score # NaN
                /\ SourceRow(raw, t.subject, r.idx).name # NA
                /\ ToNumeric(SourceScore(raw, t.subject, r.idx)) # NaN

\* the part of C18 the code keeps: every score of the output is the number
\* read from its source cell, and in the multi-sheet layout no row has a
\* null name
ScoresNumericAndSheetNamesNonNull ==
    SchoolRead =>
        \A t \in Range(read_out.tables) :
            \A r \in Range(t.rows) :
                /\ r.score # NaN
                /\ r.score = ToNumeric(SourceScore(raw, t.subject, r.idx))
                /\ read_out.layout = "sheets" =>
                      r.name # NA /\ SourceRow(raw, t.subject, r.idx).name # NA

\* C19: in every subject table read_school_data returns, in both layouts,
\* each class value is a stripped string, and the placeholders "nan", "None"
\* and "", a null class of the source included, are the empty string.
CexC19 ==
    SchoolRead =>
        \A t \in Range(read_out.tables) :
            t.hasClass =>
                \A r \in Range(t.rows) :
                    /\ r.cls # NA
                    /\ r.cls = Strip(r.cls)
                    /\ r.cls \notin {"nan", "None"}
                    /\ SourceRow(raw, t.subject, r.idx).cls = NA => r.cls = ""

\* the part of C19 the code keeps: the classes of the wide layout are
\* stripped and canonical
WideClassesCanonical ==
    (SchoolRead /\ read_out.layout = "wide") =>
        \A t \in Range(read_out.tables) :
            \A r \in Range(t.rows) :
                r.cls = ReplaceBlank(Strip(AsStr(SourceRow(raw, t.subject, r.idx).cls)))

\* a column whose header is non-empty and no placeholder and whose values are
\* numeric for at least half of the rows
HalfNumericColumn(col) ==
    LET col_name == StripHeader(col.header)
    IN  /\ col_name # "" /\ ~IsUnnamed(col_name) /\ col_name \notin ReservedHeaders
        /\ NumericCount(col.cells) * 2 >= Len(col.cells)

\* C20: in the wide layout the subject columns are exactly the columns after
\* the fifth whose header is non-empty and no placeholder and whose values
\* are at least 50% numeric (numeric count >= 50% of the rows).
CexC20 ==
    (SchoolRead /\ raw.layout = "wide" /\ ~raw.throws) =>
        read_out.subject_cols =
            LET Header(col) == StripHeader(col.header)
            IN  MapSeq(Header, SelectSeq(raw.cols, HalfNumericColumn))

\* what the code takes for a subject column: more than half of the values
\* numeric
SubjectColumnsStrictMajority ==
    (SchoolRead /\ raw.layout = "wide" /\ ~raw.throws) =>
        \A i \in DOMAIN raw.cols :
            LET col == raw.cols[i]
                col_name == StripHeader(col.header)
            IN  col_name \in Range(read_out.subject_cols) <=>
                    /\ col_name # "" /\ ~IsUnnamed(col_name) /\ col_name \notin ReservedHeaders
                    /\ NumericCount(col.cells) * 2 > Len(col.cells)

ExtractedTwice == extract_out # NotRun /\ extract_again # NotRun

IsLabel(c) == c # NA /\ Strip(c) \notin {"", "nan"}

\* the distinct class labels of merged rows, over every class column they have
LabelsOf(rows) ==
    {Strip(c) : c \in {x \in UNION {{r.cls, r.clsx, r.clsy} : r \in Range(rows)} : IsLabel(x)}}

\* the students of a class
OfClass(students, c) == LET In(r) == r.cls # NA /\ Strip(r.cls) = c IN SelectSeq(students, In)

\* the merged rows that are analysed: those with a valid total
Analysed(df) ==
    LET Valid(r) == ValidTotal(PassLineTotal(df, r)) IN SelectSeq(df.rows, Valid)

LinesRan == lines_out # NotRun
ClassTableRan == class_table_out # NotRun

\* no entry of the list has a larger pass_rate than an entry before it
PassRateDescending(stats) ==
    \A i, j \in DOMAIN stats : i < j => stats[i].pass_rate >= stats[j].pass_rate

\* C23: every per-class breakdown list (class_stats of every line in
\* total-score mode, class_stats of every subject in per-subject-line mode,
\* the queried school's class breakdown of every line in league mode) is
\* ordered by pass_rate descending.
ThmC23 ==
    /\ TotalRan =>
          \A l \in DOMAIN total_out.results :
              PassRateDescending(total_out.results[l].class_stats)
    /\ LinesRan =>
          \A i \in DOMAIN lines_out.subjects :
              PassRateDescending(lines_out.subjects[i].class_stats)
    /\ LeagueRan =>
          \A l \in DOMAIN league_out.results :
              PassRateDescending(league_out.results[l].school_class_pass_stats)

\* a subject whose first class in the table has the lower pass_rate and
\* comes second in class_stats
WitC23 ==
    /\ LinesRan
    /\ \E i \in DOMAIN lines_out.subjects :
          LET cs == lines_out.subjects[i].class_stats
              df == TableOf(subject_data, lines_out.subjects[i].subject)
          IN  /\ Len(cs) = 2
              /\ cs[1].pass_rate > cs[2].pass_rate
              /\ Strip(df.rows[1].cls) = cs[2].class_name

\* the rows of a subject table whose class label is c
LabelRows(df, c) == LET In(r) == IsLabel(r.cls) /\ Strip(r.cls) = c IN SelectSeq(df.rows, In)

\* the class labels seen in any subject table
LabelsSeen(tables) ==
    {Strip(r.cls) : r \in {x \in UNION {Range(tables[i].rows) : i \in DOMAIN tables} :
                              IsLabel(x.cls)}}

\* C24: in the class x subject matrix the outer keys are exactly the
\* non-blank, non-"nan" class labels seen in any subject table; class c has
\* a cell for subject s exactly when s has a threshold and a row of s's
\* table has class c; the cell holds the number of such rows, the number of
\* them with score >= threshold and their ratio * 100 (to two decimals).
ThmC24 ==
    ClassTableRan =>
        LET classes == class_table_out.classes
            items == subject_lines.items
        IN  /\ DOMAIN classes = LabelsSeen(subject_data)
            /\ \A c \in DOMAIN classes :
                  \A i \in DOMAIN subject_data :
                      LET df == subject_data[i]
                          s == df.subject
                          rows == LabelRows(df, c)
                          Passed(r) == r.score >= LineOf(items, s)
                      IN  IF HasLine(items, s) /\ rows # <<>>
                          THEN /\ s \in DOMAIN classes[c]
                               /\ classes[c][s].total_students = Len(rows)
                               /\ classes[c][s].passed_count = CountRows(rows, Passed)
                               /\ IsRounded(classes[c][s].pass_rate,
                                            CountRows(rows, Passed) * 100, Len(rows))
                          ELSE s \notin DOMAIN classes[c]
            /\ \A c \in DOMAIN classes :
                  DOMAIN classes[c] \subseteq {subject_data[i].subject : i \in DOMAIN subject_data}

\* two classes; math has a threshold and rows of class 1 only, english has
\* rows of class 2 and no threshold: one cell in all
WitC24 ==
    /\ ClassTableRan
    /\ DOMAIN class_table_out.classes = {"1", "2"}
    /\ DOMAIN class_table_out.classes["1"] = {"math"}
    /\ DOMAIN class_table_out.classes["2"] = {}
    /\ ~HasLine(subject_lines.items, "english")
    /\ class_table_out.classes["1"]["math"].total_students = 2
    /\ class_table_out.classes["1"]["math"].pass_rate = 5000

\* read_school_data was called on a workbook
WorkbookRead == ReadRan /\ raw.layout \in {"wide", "sheets", "unreadable"}

\* C25: read_school_data never raises to its caller: for every workbook, an
\* unreadable one included, it returns the mapping of the subjects that
\* were extracted (possibly empty).
CexC25 ==
    WorkbookRead => read_out.status = "ok"

\* C25, amended: read_school_data raises to its caller exactly when the
\* workbook cannot be opened; a wide detection that throws and a sheet that
\* cannot be parsed are not raised, and the call then returns the mapping
\* of the subjects that have rows (possibly empty).
ThmC25 ==
    WorkbookRead =>
        /\ read_out.status = "raised" <=> raw.layout = "unreadable"
        /\ read_out.status = "raised" => read_out.tables = <<>>
        /\ read_out.status = "ok" =>
              \A i \in DOMAIN read_out.tables : read_out.tables[i].rows # <<>>

\* an unreadable workbook was given and the call raised
WitC25 ==
    WorkbookRead /\ raw.layout = "unreadable" /\ read_out.status = "raised"

\* a row of table a and a row of table b are the same student under the join
\* key the claim names: name and class when both tables carry a class
\* column, the name alone otherwise
SameStudent(a, b, ra, rb) ==
    /\ Strip(ra.name) = Strip(rb.name)
    /\ (a.hasClass /\ b.hasClass) =>
          ReplaceBlank(Strip(ra.cls)) = ReplaceBlank(Strip(rb.cls))

\* the merged table of two subject tables joins exactly the rows of the
\* same student and has the two subject columns and no other new column
JoinedAsClaimed(a, b, df) ==
    /\ df.subjects = <<a.subject, b.subject>>
    /\ ~df.hasXY
    /\ \A i \in DOMAIN a.rows, j \in DOMAIN b.rows :
          SameStudent(a, b, a.rows[i], b.rows[j]) =>
              \E k \in DOMAIN df.rows :
                  /\ df.rows[k].name = Strip(a.rows[i].name)
                  /\ df.rows[k].sc[a.subject] = a.rows[i].score
                  /\ df.rows[k].sc[b.subject] = b.rows[j].score
    /\ \A k \in DOMAIN df.rows :
          (df.rows[k].sc[a.subject] # NaN /\ df.rows[k].sc[b.subject] # NaN) =>
              \E i \in DOMAIN a.rows, j \in DOMAIN b.rows :
                  /\ SameStudent(a, b, a.rows[i], b.rows[j])
                  /\ df.rows[k].name = Strip(a.rows[i].name)
                  /\ df.rows[k].sc[a.subject] = a.rows[i].score
                  /\ df.rows[k].sc[b.subject] = b.rows[j].score

\* the total-score analysis merged exactly two subject tables
MergedTwo ==
    /\ TotalRan /\ total_out.merged # NotRun
    /\ Len(school_data) = 2

\* C26: the outer join of a later subject table into the accumulated table
\* is on {name, class} if both carry a class column and on {name} alone
\* otherwise, and it adds exactly one new column, named after the subject,
\* holding the student's score (null if the student is absent from it).
CexC26 ==
    MergedTwo => JoinedAsClaimed(school_data[1], school_data[2], total_out.merged)

\* the part of C26 the code keeps: two tables that both carry a class
\* column are joined on name and class, with one new column
JoinedOnNameAndClassWhenBothCarry ==
    (MergedTwo /\ school_data[1].hasClass /\ school_data[2].hasClass) =>
        JoinedAsClaimed(school_data[1], school_data[2], total_out.merged)

\* a row of the sheet survives: it has a name and a score a number can be
\* read from
SheetHasSurvivor(sh) ==
    \E i \in DOMAIN sh.rows : sh.rows[i].name # NA /\ ToNumeric(sh.rows[i].score) # NaN

\* the sheet can be read as a subject: it parses and has the 姓名 and 得分 columns
SheetReadable(sh) == sh.parses /\ sh.hasName /\ sh.hasScore

\* the wide detection gave no subject: the first sheet does not match, the
\* detection threw, or none of its subject columns has a surviving row
WideGaveNothing(file) ==
    \/ file.layout = "sheets"
    \/ file.layout = "wide" /\ file.throws
    \/ /\ file.layout = "wide"
       /\ \A i \in DOMAIN file.cols :
             IsSubjectColumn(file.cols[i]) =>
                 \A k \in DOMAIN file.rows : ToNumeric(file.cols[i].cells[k]) = NaN

\* C27: whenever the wide detection does not match, throws or yields no
\* subject, read_school_data returns what the multi-sheet detection
\* produces: every sheet but the total sheet is tried, a sheet that fails
\* to parse or has no surviving row is omitted, and the other subjects are
\* returned all the same.
ThmC27 ==
    (WorkbookRead /\ raw.layout # "unreadable" /\ WideGaveNothing(raw)) =>
        /\ read_out.status = "ok" /\ read_out.layout = "sheets"
        /\ \A i \in DOMAIN raw.sheets :
              LET sh == raw.sheets[i]
              IN  (\E k \in DOMAIN read_out.tables : read_out.tables[k].subject = sh.subject)
                      <=> (sh.subject # "total" /\ SheetReadable(sh) /\ SheetHasSurvivor(sh))
        /\ \A k \in DOMAIN read_out.tables :
              /\ read_out.tables[k].rows # <<>>
              /\ \E i \in DOMAIN raw.sheets : raw.sheets[i].subject = read_out.tables[k].subject

\* a wide first sheet without any subject, a sheet that cannot be parsed
\* and a third sheet whose subject is returned
WitC27 ==
    /\ WorkbookRead /\ raw.layout = "wide" /\ ~raw.throws
    /\ WideGaveNothing(raw)
    /\ \E i \in DOMAIN raw.sheets : ~raw.sheets[i].parses
    /\ Len(read_out.tables) = 1 /\ read_out.tables[1].subject = "physics"

\* the analyze request has answered
AnalyzeRan == analyze_out # NotRun

\* obtaining the school tables fails with the not-found condition
SchoolTablesNotFound ==
    LET got == GetSchoolDataFromSources(league_df, school_names)
    IN  got.status = "raised" /\ got.error \in {"no school name", "no records"}

\* C28, as stated: when the school tables are not found, the analyze request
\* completes successfully with an empty school analysis and returns the league
\* analysis for the requested score lines.
CexC28 ==
    (AnalyzeRan /\ SchoolTablesNotFound) =>
        /\ analyze_out.success
        /\ analyze_out.school_analysis = <<>>
        /\ DOMAIN analyze_out.league_analysis = Range(ScoreLineList)

\* what the request does when the school tables are not found: the school
\* analysis is empty; without school names the request succeeds with an empty
\* league analysis; with names it either succeeds with the league analysis of
\* analyze_league_scores or answers 500 when that analysis raised
NotFoundOutcome ==
    (AnalyzeRan /\ SchoolTablesNotFound) =>
        LET league_res == AnalyzeLeagueScoresResult(league_df, school_names, ScoreLineList)
        IN  /\ analyze_out.school_analysis = <<>>
            /\ school_names = <<>> =>
                   analyze_out.success /\ analyze_out.league_analysis = <<>>
            /\ (school_names # <<>> /\ league_res.status = "ok") =>
                   analyze_out.success /\ analyze_out.league_analysis = league_res.results
            /\ (school_names # <<>> /\ league_res.status = "raised") =>
                   ~analyze_out.success /\ analyze_out.code = 500

\* the request without school names answered success with no league analysis
NoNamesNoLeagueAnalysis ==
    /\ AnalyzeRan /\ school_names = <<>>
    /\ league_df.score_cols # <<>> /\ Len(league_df.rows) = 2
    /\ analyze_out.success /\ analyze_out.league_analysis = <<>>

\* the request with names matching no row answered 500
NotFoundAnswered500 ==
    /\ AnalyzeRan /\ SchoolTablesNotFound /\ school_names # <<>>
    /\ analyze_out.code = 500

\* sum(total_students over class_results) + len(excluded_students)
AccountedRows(out) ==
    LET N(x) == x.total_students
    IN  SumSeq(MapSeq(N, out.class_results)) + Len(out.excluded_students)

\* C29, as stated: in the class assessment every merged row is counted in the
\* total_students of one class result or listed in excluded_students, so the
\* two together add up to the number of merged rows.
CexC29 ==
    (AssessRan /\ assess_out.status = "ok" /\ assess_out.merged # NotRun) =>
        AccountedRows(assess_out) = Len(assess_out.merged.rows)

\* a kept student that no class result counts: the merged table has no 班级
\* column, or the student's label is null, blank or "nan"
InNoClassResult(out, r) ==
    \/ ~out.merged.hasCls
    \/ r.cls = NA
    \/ Strip(r.cls) = ""
    \/ r.cls = "nan"

\* the rows of the merged table are the counted ones, the excluded ones and
\* the kept students that no class result counts
UnlabelledStudentsUncounted ==
    (AssessRan /\ assess_out.status = "ok" /\ assess_out.merged # NotRun) =>
        LET Lost(r) == InNoClassResult(assess_out, r)
        IN  AccountedRows(assess_out) + CountRows(assess_out.students, Lost)
                = Len(assess_out.merged.rows)

\* the subject mapping processed in another order
Reordered(tables, p) == [i \in DOMAIN tables |-> tables[p[i]]]

\* the merged students with their totals
StudentsWithTotals(out) == {<<r.name, r.total>> : r \in Range(out.students)}

\* the pass-line analysis of every ordering of the mapping ends as this one
\* did, with the same students and totals
SameInEveryOrder ==
    \A numeric_only \in BOOLEAN :
        total_out = AnalyzeSchoolTotalScoreResult(school_data, ScoreLineList, numeric_only) =>
            \A p \in Permutations(DOMAIN school_data) :
                LET other == AnalyzeSchoolTotalScoreResult(Reordered(school_data, p),
                                                           ScoreLineList, numeric_only)
                IN  /\ other.status = total_out.status
                    /\ StudentsWithTotals(other) = StudentsWithTotals(total_out)

\* the class assessment of every ordering of the mapping ends as this one
\* did, with the same students and totals, class results and excluded students
AssessmentSameInEveryOrder ==
    \A numeric_only \in BOOLEAN :
        LET Result(tables) ==
                CalculateClassAssessmentResult(tables, assess_out.tekong_line,
                                               assess_out.yiduan_line, numeric_only)
            here == Result(school_data)
        IN  (/\ here.status = assess_out.status
             /\ here.class_results = assess_out.class_results
             /\ here.excluded_students = assess_out.excluded_students) =>
                \A p \in Permutations(DOMAIN school_data) :
                    LET other == Result(Reordered(school_data, p))
                    IN  /\ other.status = assess_out.status
                        /\ StudentsWithTotals(other) = StudentsWithTotals(assess_out)
                        /\ Range(other.class_results) = Range(assess_out.class_results)
                        /\ Range(other.excluded_students)
                               = Range(assess_out.excluded_students)

\* C30, as stated: the result of the total-score merge does not depend on the
\* order in which the subject tables are processed, also when only some of
\* them carry a class column: the merged students and their totals, the
\* pass-line and the class-assessment statistics are the same.
CexC30 ==
    /\ TotalRan => SameInEveryOrder
    /\ AssessRan => AssessmentSameInEveryOrder

\* when every subject table carries a class column, the order of the tables
\* changes neither the outcome nor the students, totals and class statistics
SameInEveryOrderWhenAllCarryClass ==
    (\A i \in DOMAIN school_data : school_data[i].hasClass) =>
        /\ TotalRan => SameInEveryOrder
        /\ AssessRan => AssessmentSameInEveryOrder

====
